---- MODULE Spec2Model ----
(***************************************************************************)
(* Register-allocation core of the ARM back end (src/arm/codegen.rs):      *)
(* the block linearizer, the live-interval scanner and the second-chance   *)
(* bin-packing register allocator, each as a state machine over the same   *)
(* variables.  Interval, CycleSolver and the register pools live in        *)
(* modules of the crate that are not part of the sources at hand; their    *)
(* definitions below follow the written specification.                     *)
(***************************************************************************)
EXTENDS Integers, Sequences, FiniteSets, TLC

(***************************************************************************)
(* Bounds of the model.                                                    *)
(***************************************************************************)
NumVars == 3
MaxPos == 3
MaxOps == 4
MaxScratch == 2
MaxDirectOps == 4
NumParamRegs == 2
NumResultRegs == 2
NumVarRegs == 2
NumBlocks == 3
NumFwdBlocks == 5
MaxInst == 3
MaxOperands == 1
MaxUses == 1
MaxScanBlocks == 1

\* usize::max_value(), with usize narrowed to 16 bits
UsizeMax == 65535

Vars == 0 .. (NumVars - 1)
ScratchIds == (UsizeMax - MaxScratch + 1) .. UsizeMax
Ids == Vars \cup ScratchIds
Positions == 0 .. MaxPos

NoReg == 0 - 1
NoVar == 0 - 1
NoBlock == 0 - 1

Min(a, b) == IF a <= b THEN a ELSE b
Max(a, b) == IF a >= b THEN a ELSE b
Last(s) == s[Len(s)]
Front(s) == SubSeq(s, 1, Len(s) - 1)
Range(s) == {s[i] : i \in 1 .. Len(s)}

(***************************************************************************)
(* Interval: a closed range <<start, end>> over positions.                 *)
(***************************************************************************)
Point(pos) == <<pos, pos>>

Union(a, b) == <<Min(a[1], b[1]), Max(a[2], b[2])>>

update_starting_pos(iv, pos) == <<Min(iv[1], pos), iv[2]>>

update_ending_pos(iv, pos) == <<iv[1], Max(iv[2], pos)>>

alive_for_reading(iv, pos) == iv[1] <= pos /\ pos <= iv[2]

is_inside_write(iv, pos) == iv[1] <= pos /\ pos < iv[2]

\* split(pos): the interval is cut to end at pos, the tail pos..end is returned
SplitHead(iv, pos) == <<iv[1], pos>>

SplitTail(iv, pos) == <<pos, iv[2]>>

IntervalLen(iv) == iv[2] - iv[1]

(***************************************************************************)
(* Register pools: ordered sets of physical registers.  Parameter and      *)
(* result registers both start at register 0; the variable pool follows    *)
(* the parameter registers and its last register is scratch-eligible.      *)
(***************************************************************************)
PARAM_REGISTERS == [i \in 1 .. NumParamRegs |-> i - 1]

RESULT_REGISTERS == [i \in 1 .. NumResultRegs |-> i - 1]

VARIABLE_REGISTERS == [i \in 1 .. NumVarRegs |-> NumParamRegs + i - 1]

SCRATCH_VARIABLE_ALLOWED_REGISTERS == <<NumParamRegs + NumVarRegs - 1>>

Regs == Range(PARAM_REGISTERS) \cup Range(RESULT_REGISTERS) \cup Range(VARIABLE_REGISTERS)

VarKind == {"Param", "Ret", "Local", "FixedTemp"}

VARIABLES
    var_table,                  \* Func::var_table: variable id -> kind
    live_intervals,             \* IndexMap<usize, Interval>: sequence of <<id, interval>>
    var_collapse,               \* IndexMap<usize, usize> as a function, NoVar = no entry
    assignment,                 \* id -> sequence of [iv, reg]; <<>> = no entry
    spilled,                    \* id -> sequence of intervals; <<>> = no entry
    active,                     \* BiMap<VarId, Reg>: set of <<id, reg>>
    scratch_register_counter,
    pos,                        \* the position the caller of the allocator has reached
    err,                        \* "none", or the way the pass ended
    ops,                        \* the number of operations the caller has issued
    last,                       \* the last allocator operation and what it returned
    bb,                         \* Func::bb: block id -> [end, inst]
    cycle_count,                \* arrange_basic_blocks: the counter of the CycleSolver
    input_count,                \* arrange_basic_blocks: HashMap<usize, isize>
    bfs_q,                      \* arrange_basic_blocks: VecDeque
    vis,                        \* arrange_basic_blocks: HashSet
    bb_arrangement,             \* FnCodegen::bb_arrangement
    bb_start_pos,               \* FnCodegen::bb_start_pos: sequence of <<id, start>>
    pc,                         \* the step FnCodegen has reached
    offset,                     \* BasicBlkIntervals::offset of the block being scanned
    inst_idx,                   \* the instructions of the block scanned so far
    reads,                      \* the operands read so far: <<variable, position>>
    lexer,                      \* TokenIterator: the tokens not yet consumed
    lexer_ended,                \* ExprParser::lexer_ended
    suggest_unary,              \* ExprParser::suggest_unary
    err_fuse,                   \* ExprParser::err_fuse
    parse_err,                  \* ExprParser::err, "none" for None
    op_stack,                   \* ExprParser::op_stack, the top is the last element
    in_call,                    \* a call of ExprParser::next is inside loop_while
    ret                         \* what the last call on the parser returned

allocVars == <<var_table, live_intervals, var_collapse, assignment, spilled, active,
               scratch_register_counter, pos, err, ops, last>>

fnVars == <<bb, cycle_count, input_count, bfs_q, vis, bb_arrangement, bb_start_pos, pc>>

scanVars == <<offset, inst_idx, reads>>

exprVars == <<lexer, lexer_ended, suggest_unary, err_fuse, parse_err, op_stack, in_call, ret>>

vars == <<allocVars, fnVars, scanVars, exprVars>>

(***************************************************************************)
(* The live-interval table (IndexMap, insertion ordered).                  *)
(***************************************************************************)
HasKey(tbl, k) == \E i \in 1 .. Len(tbl) : tbl[i][1] = k

IndexOf(tbl, k) == CHOOSE i \in 1 .. Len(tbl) : tbl[i][1] = k

Get(tbl, k) == tbl[IndexOf(tbl, k)][2]

Keys(tbl) == {tbl[i][1] : i \in 1 .. Len(tbl)}

(***************************************************************************)
(* BiMap<VarId, Reg>                                                       *)
(***************************************************************************)
\* BiMap::insert: pairs sharing the left or the right value are evicted
BiInsert(bm, l, r) == {p \in bm : p[1] # l /\ p[2] # r} \cup {<<l, r>>}

RemoveByLeft(bm, l) == {p \in bm : p[1] # l}

ContainsLeft(bm, l) == \E p \in bm : p[1] = l

ContainsRight(bm, r) == \E p \in bm : p[2] = r

GetByLeft(bm, l) == (CHOOSE p \in bm : p[1] = l)[2]

GetByRight(bm, r) == (CHOOSE p \in bm : p[2] = r)[1]

\* the record of the last operation, before any
NoOp == [op |-> "new", var |-> NoVar, reg |-> NoReg, victim |-> NoVar,
         revived |-> FALSE, pos |-> 0, msg |-> ""]

(***************************************************************************)
(* The function handed to FnCodegen: its basic blocks.  A block is its     *)
(* terminator and the number of its instructions.                          *)
(***************************************************************************)
Return == [kind |-> "Return", t |-> NoBlock, f |-> NoBlock]

Jump(id) == [kind |-> "Jump", t |-> id, f |-> NoBlock]

Conditional(t, f) == [kind |-> "Conditional", t |-> t, f |-> f]

\* JumpInst::next_ids: the targets in the order the terminator names them
next_ids(end) ==
    CASE end.kind = "Jump" -> <<end.t>>
      [] end.kind = "Conditional" -> <<end.t, end.f>>
      [] OTHER -> <<>>

\* BasicBlk::jump_in: the set of the blocks that jump to id
jump_in(blocks, id) == {a \in DOMAIN blocks : id \in Range(next_ids(blocks[a].end))}

\* the terminators a block may carry when its targets are drawn from targets
JumpInsts(targets) ==
    {Return} \cup {Jump(t) : t \in targets}
             \cup {Conditional(t, f) : t \in targets, f \in targets}

(***************************************************************************)
(* CycleSolver: a depth-first walk from block 0; an edge that returns to   *)
(* a block of the current path closes a cycle, and the cycle is counted    *)
(* on every block it passes through.                                       *)
(***************************************************************************)
PathIndex(path, id) == CHOOSE i \in 1 .. Len(path) : path[i] = id

CountCycle(counter, path, id) ==
    [b \in DOMAIN counter |->
        IF \E j \in PathIndex(path, id) .. Len(path) : path[j] = b
        THEN counter[b] + 1 ELSE counter[b]]

RECURSIVE CycleDfs(_, _, _, _)
CycleDfs(blocks, id, path, st) ==
    IF id \in Range(path) THEN [st EXCEPT !.counter = CountCycle(@, path, id)]
    ELSE IF id \in st.vis THEN st
    ELSE LET succ == next_ids(blocks[id].end)
             here == Append(path, id)
             st1 == [st EXCEPT !.vis = @ \cup {id}]
             st2 == IF Len(succ) >= 1 THEN CycleDfs(blocks, succ[1], here, st1) ELSE st1
         IN  IF Len(succ) >= 2 /\ succ[2] # succ[1]
             THEN CycleDfs(blocks, succ[2], here, st2) ELSE st2

\* CycleSolver::new, solve and the counter it leaves
CycleSolverCounter(blocks) ==
    CycleDfs(blocks, 0, <<>>, [vis |-> {}, counter |-> [b \in DOMAIN blocks |-> 0]]).counter

(***************************************************************************)
(* FnCodegen::arrange_basic_blocks and calc_bb_starting_points             *)
(***************************************************************************)
\* input_count as the first loop of arrange_basic_blocks leaves it: one for the
\* starting block, and one for each entry of jump_in
InputCount(blocks) ==
    [id \in {b \in DOMAIN blocks : b = 0 \/ jump_in(blocks, b) # {}} |->
        (IF id = 0 THEN 1 ELSE 0) + Cardinality(jump_in(blocks, id))]

\* the locals of arrange_basic_blocks, before the call and after its return
NoLocals ==
    /\ cycle_count = <<>>
    /\ input_count = <<>>
    /\ bfs_q = <<>>
    /\ vis = {}

ArrangeStart ==
    /\ pc = "new"
    /\ cycle_count' = CycleSolverCounter(bb)
    /\ input_count' = InputCount(bb)
    /\ bfs_q' = <<0>>
    /\ vis' = {}
    /\ pc' = "arrange"
    /\ UNCHANGED <<bb, bb_arrangement, bb_start_pos, allocVars, exprVars, scanVars>>

\* a turn that looks at the front of the queue and leaves it there when the
\* block has been visited
ArrangeStepPeek ==
    /\ pc = "arrange" /\ bfs_q # <<>>
    /\ LET bb_id == Head(bfs_q)
           count == input_count[bb_id] - 1
       IN  IF bb_id \in vis
           THEN UNCHANGED <<input_count, bfs_q, vis, bb_arrangement>>
           ELSE /\ input_count' = [input_count EXCEPT ![bb_id] = count]
                /\ IF count > cycle_count[bb_id]
                   THEN /\ bfs_q' = Tail(bfs_q)
                        /\ UNCHANGED <<vis, bb_arrangement>>
                   ELSE /\ vis' = vis \cup {bb_id}
                        /\ bb_arrangement' = Append(bb_arrangement, bb_id)
                        /\ bfs_q' = Tail(bfs_q) \o next_ids(bb[bb_id].end)
    /\ UNCHANGED <<bb, cycle_count, bb_start_pos, pc, allocVars, exprVars, scanVars>>

\* one turn of the while loop
ArrangeStep ==
    /\ pc = "arrange" /\ bfs_q # <<>>
    /\ LET bb_id == Head(bfs_q)
           count == input_count[bb_id] - 1
       IN  /\ input_count' = [input_count EXCEPT ![bb_id] = count]
           /\ IF count > cycle_count[bb_id] \/ bb_id \in vis
              THEN /\ bfs_q' = Tail(bfs_q)
                   /\ UNCHANGED <<vis, bb_arrangement>>
              ELSE /\ vis' = vis \cup {bb_id}
                   /\ bb_arrangement' = Append(bb_arrangement, bb_id)
                   /\ bfs_q' = Tail(bfs_q) \o next_ids(bb[bb_id].end)
    /\ UNCHANGED <<bb, cycle_count, bb_start_pos, pc, allocVars, exprVars, scanVars>>

\* the queue is empty: arrange_basic_blocks returns
ArrangeReturn ==
    /\ pc = "arrange" /\ bfs_q = <<>>
    /\ pc' = "arranged"
    /\ cycle_count' = <<>>
    /\ input_count' = <<>>
    /\ vis' = {}
    /\ UNCHANGED <<bb, bfs_q, bb_arrangement, bb_start_pos, allocVars, exprVars, scanVars>>

\* a mis-stated accumulator step: no unit for the block boundary
NextStartNoBoundary(acc, len) == acc + len

\* acc += inst.len() + 1
NextStart(acc, len) == acc + len + 1

RECURSIVE StartFrom(_, _, _, _)
\* the entries the loop inserts for the blocks of arr from the i-th on
StartFrom(blocks, arr, i, acc) ==
    IF i > Len(arr) THEN <<>>
    ELSE <<<<arr[i], acc>>>> \o StartFrom(blocks, arr, i + 1, NextStart(acc, blocks[arr[i]].inst))

calc_bb_starting_points(blocks, arr) == StartFrom(blocks, arr, 1, 0)

CalcStartingPoints ==
    /\ pc = "arranged"
    /\ bb_start_pos' = calc_bb_starting_points(bb, bb_arrangement)
    /\ pc' = "laid_out"
    /\ UNCHANGED <<bb, cycle_count, input_count, bfs_q, vis, bb_arrangement, allocVars, exprVars, scanVars>>

\* the positions BasicBlkIntervals::scan_intervals gives the instructions of a block
InstPositions(id) == {idx + Get(bb_start_pos, id) : idx \in 0 .. (bb[id].inst - 1)}

(***************************************************************************)
(* The functions the linearizer is run on.                                 *)
(***************************************************************************)
Blocks == 0 .. (NumBlocks - 1)

FwdBlocks == 0 .. (NumFwdBlocks - 1)

\* block id holds id mod (MaxInst + 1) instructions
InstCount(id) == id % (MaxInst + 1)

\* every function of NumBlocks blocks: loops, self-loops and unreachable blocks included
Funcs ==
    {[id \in Blocks |-> [end |-> e[id], inst |-> InstCount(id)]] :
        e \in [Blocks -> JumpInsts(Blocks)]}

RECURSIVE FwdEnds(_)
\* the terminators of the blocks from id on, every jump going to a later block
FwdEnds(id) ==
    IF id = NumFwdBlocks THEN {<<>>}
    ELSE {<<e>> \o rest : e \in JumpInsts((id + 1) .. (NumFwdBlocks - 1)),
                          rest \in FwdEnds(id + 1)}

\* the loop-free functions of NumFwdBlocks blocks
FwdFuncs ==
    {[id \in FwdBlocks |-> [end |-> e[id + 1], inst |-> InstCount(id)]] : e \in FwdEnds(0)}

\* the arrangements of NumBlocks blocks: block 0, then other blocks, none twice
Arrangements ==
    {arr \in UNION {[1 .. n -> Blocks] : n \in 1 .. NumBlocks} :
        /\ arr[1] = 0
        /\ \A i, j \in DOMAIN arr : i # j => arr[i] # arr[j]}

\* the chain of jumps that is arranged as arr, with n[id] instructions in block id
ChainFunc(arr, n) ==
    [id \in Blocks |->
        [end |-> IF \E i \in 1 .. (Len(arr) - 1) : arr[i] = id
                 THEN Jump(arr[PathIndex(arr, id) + 1]) ELSE Return,
         inst |-> n[id]]]

\* no expression is being parsed
NoExprParser ==
    /\ lexer = <<>>
    /\ lexer_ended = FALSE
    /\ suggest_unary = TRUE
    /\ err_fuse = FALSE
    /\ parse_err = "none"
    /\ op_stack = <<>>
    /\ in_call = FALSE
    /\ ret = "none"

\* FnCodegen::new: nothing arranged, a fresh allocator
FreshCodegen ==
    /\ NoLocals
    /\ NoExprParser
    /\ bb_start_pos = <<>>
    /\ offset = 0
    /\ inst_idx = 0
    /\ reads = {}
    /\ var_table = [v \in Vars |-> "Local"]
    /\ live_intervals = <<>>
    /\ var_collapse = [v \in Vars |-> NoVar]
    /\ assignment = [v \in Ids |-> <<>>]
    /\ spilled = [v \in Ids |-> <<>>]
    /\ active = {}
    /\ scratch_register_counter = UsizeMax
    /\ pos = 0
    /\ err = "none"
    /\ ops = 0
    /\ last = NoOp

InitLin ==
    /\ bb \in Funcs
    /\ bb_arrangement = <<>>
    /\ pc = "new"
    /\ FreshCodegen

InitLinFwd ==
    /\ bb \in FwdFuncs
    /\ bb_arrangement = <<>>
    /\ pc = "new"
    /\ FreshCodegen

\* arrange_basic_blocks has returned arr for a chain of blocks
InitLayout ==
    /\ \E arr \in Arrangements : \E n \in [Blocks -> 0 .. MaxInst] :
          /\ bb = ChainFunc(arr, n)
          /\ bb_arrangement = arr
    /\ pc = "arranged"
    /\ FreshCodegen

NextLin ==
    \/ ArrangeStart
    \/ ArrangeStep
    \/ ArrangeReturn
    \/ CalcStartingPoints

SpecLin == InitLin /\ [][NextLin]_vars

SpecLinFwd == InitLinFwd /\ [][NextLin]_vars

NextLayout == CalcStartingPoints

SpecLayout == InitLayout /\ [][NextLayout]_vars

(***************************************************************************)
(* SecondChanceBinPackingRegAlloc.  The operations work on a record of     *)
(* the tables; a panic sets err, and the operation that raised it ends     *)
(* the pass: the allocator is dropped with its tables.                     *)
(***************************************************************************)
AllocState == [assignment |-> assignment, spilled |-> spilled, active |-> active,
               err |-> err, msg |-> ""]

\* a panic with the message the code gives it
PanicWith(st, text) == [st EXCEPT !.err = "internal", !.msg = text]

\* the panic of an unwrap or an index out of range
Panic(st) == PanicWith(st, "unwrap")

SetLast(s, x) == [s EXCEPT ![Len(s)] = x]

\* a rebinding that takes a variable with no spill record as it comes
AllocateRegisterUnspilled(st, var_id, reg, p, val_interval) ==
    IF st.assignment[var_id] # <<>>
    THEN IF \E i \in 1 .. Len(st.assignment[var_id]) :
                is_inside_write(st.assignment[var_id][i].iv, p)
         THEN PanicWith(st, "No duplicate allocations")
         ELSE IF st.spilled[var_id] = <<>>
         THEN [st EXCEPT
                 !.assignment[var_id] = Append(@, [iv |-> val_interval, reg |-> reg]),
                 !.active = BiInsert(@, var_id, reg)]
         ELSE LET sp == st.spilled[var_id]
              IN  [st EXCEPT
                     !.spilled[var_id] = SetLast(sp, SplitHead(Last(sp), p)),
                     !.assignment[var_id] = Append(@, [iv |-> SplitTail(Last(sp), p), reg |-> reg]),
                     !.active = BiInsert(@, var_id, reg)]
    ELSE IF st.spilled[var_id] # <<>>
         THEN LET sp == st.spilled[var_id]
              IN  [st EXCEPT
                     !.spilled[var_id] = SetLast(sp, SplitHead(Last(sp), p)),
                     !.assignment[var_id] = <<[iv |-> SplitTail(Last(sp), p), reg |-> reg]>>,
                     !.active = BiInsert(@, var_id, reg)]
         ELSE [st EXCEPT
                 !.assignment[var_id] = <<[iv |-> val_interval, reg |-> reg]>>,
                 !.active = BiInsert(@, var_id, reg)]

allocate_register(st, var_id, reg, p, val_interval) ==
    IF st.assignment[var_id] # <<>>
    THEN \* Occupied: the variable must have been spilled somewhere else
         IF \E i \in 1 .. Len(st.assignment[var_id]) :
                is_inside_write(st.assignment[var_id][i].iv, p)
         THEN PanicWith(st, "No duplicate allocations")
         ELSE IF st.spilled[var_id] = <<>>
         THEN Panic(st)
         ELSE LET sp == st.spilled[var_id]
                  new_interval == SplitTail(Last(sp), p)
              IN  [st EXCEPT
                     !.spilled[var_id] = SetLast(sp, SplitHead(Last(sp), p)),
                     !.assignment[var_id] = Append(@, [iv |-> new_interval, reg |-> reg]),
                     !.active = BiInsert(@, var_id, reg)]
    ELSE IF st.spilled[var_id] # <<>>
         THEN \* the variable is located in the stack from the beginning
              LET sp == st.spilled[var_id]
              IN  [st EXCEPT
                     !.spilled[var_id] = SetLast(sp, SplitHead(Last(sp), p)),
                     !.assignment[var_id] = <<[iv |-> SplitTail(Last(sp), p), reg |-> reg]>>,
                     !.active = BiInsert(@, var_id, reg)]
         ELSE [st EXCEPT
                 !.assignment[var_id] = <<[iv |-> val_interval, reg |-> reg]>>,
                 !.active = BiInsert(@, var_id, reg)]

\* a spill that leaves the variable in the Active map
SpillVarKeepsActive(st, var_id, p) ==
    IF st.assignment[var_id] # <<>>
    THEN LET asg == st.assignment[var_id]
             lst == Last(asg)
         IN  [st EXCEPT
                !.assignment[var_id] = SetLast(asg, [lst EXCEPT !.iv = SplitHead(lst.iv, p)]),
                !.spilled[var_id] = Append(@, SplitTail(lst.iv, p))]
    ELSE PanicWith(st, "The variable is not allocated!")

spill_var(st, var_id, p) ==
    IF st.assignment[var_id] # <<>>
    THEN LET asg == st.assignment[var_id]
             lst == Last(asg)
         IN  [st EXCEPT
                !.assignment[var_id] = SetLast(asg, [lst EXCEPT !.iv = SplitHead(lst.iv, p)]),
                !.spilled[var_id] = Append(@, SplitTail(lst.iv, p)),
                !.active = RemoveByLeft(@, var_id)]
    ELSE PanicWith(st, "The variable is not allocated!")

spill_reg(st, reg, p) ==
    IF ContainsRight(st.active, reg)
    THEN spill_var(st, GetByRight(st.active, reg), p)
    ELSE PanicWith(st, "Unknown register")

\* a filter that forgets the return value
PinnedFixedTempOnly(kind) == kind = "FixedTemp"

\* the kinds choose_spill_register filters out: they cannot be spilled
Pinned(kind) == kind \in {"FixedTemp", "Ret"}

\* the sort key of choose_spill_register: the length of the whole live interval
SpillKey(var_id) ==
    IF HasKey(live_intervals, var_id) THEN IntervalLen(Get(live_intervals, var_id)) ELSE 0

SpillCandidates(st, allowed_regs) ==
    {p \in st.active : ~Pinned(var_table[p[1]]) /\ p[2] \in Range(allowed_regs)}

\* a choice that takes the shortest-lived candidate
ChooseShortestLived(st, allowed_regs) ==
    IF \E p \in st.active : p[1] \notin DOMAIN var_table
    THEN [panic |-> TRUE, regs |-> {}]
    ELSE LET cands == SpillCandidates(st, allowed_regs)
         IN  [panic |-> FALSE,
              regs |-> {p[2] : p \in {q \in cands :
                            \A o \in cands : SpillKey(q[1]) <= SpillKey(o[1])}}]

\* The registers choose_spill_register may return: the last of the candidates
\* sorted by key, in the iteration order of the hash map for equal keys.
\* var_table.get(v).unwrap() panics on an id the function does not declare.
choose_spill_register(st, allowed_regs) ==
    IF \E p \in st.active : p[1] \notin DOMAIN var_table
    THEN [panic |-> TRUE, regs |-> {}]
    ELSE LET cands == SpillCandidates(st, allowed_regs)
         IN  [panic |-> FALSE,
              regs |-> {p[2] : p \in {q \in cands :
                            \A o \in cands : SpillKey(o[1]) <= SpillKey(q[1])}}]

\* a scan that claims the last free register of the pool
LastAvailable(st, allowed_regs) ==
    LET free == {i \in 1 .. Len(allowed_regs) : ~ContainsRight(st.active, allowed_regs[i])}
    IN  IF free = {} THEN NoReg
        ELSE allowed_regs[CHOOSE i \in free : \A j \in free : j <= i]

FirstAvailable(st, allowed_regs) ==
    LET free == {i \in 1 .. Len(allowed_regs) : ~ContainsRight(st.active, allowed_regs[i])}
    IN  IF free = {} THEN NoReg
        ELSE allowed_regs[CHOOSE i \in free : \A j \in free : i <= j]

\* The outcomes of find_allocate_or_spill: the tables, the register returned
\* and the variable spilled, if any.
find_allocate_or_spill(st, var_id, allowed_regs, interval, p) ==
    IF ContainsLeft(st.active, var_id)
    THEN {[st |-> st, reg |-> GetByLeft(st.active, var_id), victim |-> NoVar]}
    ELSE IF FirstAvailable(st, allowed_regs) # NoReg
    THEN LET reg == FirstAvailable(st, allowed_regs)
         IN  {[st |-> allocate_register(st, var_id, reg, p, interval),
               reg |-> reg, victim |-> NoVar]}
    ELSE LET c == choose_spill_register(st, allowed_regs)
         IN  IF c.panic
             THEN {[st |-> Panic(st), reg |-> NoReg, victim |-> NoVar]}
             ELSE IF c.regs = {}
             THEN {[st |-> PanicWith(st, "No register to spill! This is an internal error"),
                    reg |-> NoReg, victim |-> NoVar]}
             ELSE {LET s1 == spill_reg(st, reg, p)
                   IN  [st |-> IF s1.err # "none" THEN s1
                               ELSE allocate_register(s1, var_id, reg, p, interval),
                        reg |-> reg, victim |-> GetByRight(st.active, reg)]
                   : reg \in c.regs}

\* a revival that does not assert that the spill fragment is valid at p
ReviveUnchecked(st, var_id, p) ==
    IF st.spilled[var_id] = <<>>
    THEN [st |-> PanicWith(st, "The variable is not spilled"), iv |-> Point(p)]
    ELSE LET sp == st.spilled[var_id]
         IN  [st |-> [st EXCEPT !.spilled[var_id] = SetLast(sp, SplitHead(Last(sp), p))],
              iv |-> SplitTail(Last(sp), p)]

revive(st, var_id, p) ==
    IF st.spilled[var_id] = <<>>
    THEN [st |-> PanicWith(st, "The variable is not spilled"), iv |-> Point(p)]
    ELSE LET sp == st.spilled[var_id]
         IN  IF ~alive_for_reading(Last(sp), p)
             THEN [st |-> PanicWith(st, "Reading variable outside live interval"),
                   iv |-> Point(p)]
             ELSE [st |-> [st EXCEPT !.spilled[var_id] = SetLast(sp, SplitHead(Last(sp), p))],
                   iv |-> SplitTail(Last(sp), p)]

Failed(st) == [st |-> st, reg |-> NoReg, victim |-> NoVar, revived |-> FALSE]

request_read_allocation(st, var_id, p) ==
    IF st.assignment[var_id] = <<>>
    THEN {Failed(PanicWith(st, "Read variable before write!"))}
    ELSE LET last_allocation == Last(st.assignment[var_id])
         IN  IF alive_for_reading(last_allocation.iv, p)
             THEN {[st |-> st, reg |-> last_allocation.reg, victim |-> NoVar,
                    revived |-> FALSE]}
             ELSE LET rv == revive(st, var_id, p)
                  IN  IF rv.st.err # "none"
                      THEN {Failed(rv.st)}
                      ELSE {[st |-> IF o.st.err # "none" THEN o.st
                                    ELSE allocate_register(o.st, var_id, o.reg, p, rv.iv),
                             reg |-> o.reg, victim |-> o.victim, revived |-> TRUE]
                            : o \in find_allocate_or_spill(rv.st, var_id,
                                                           VARIABLE_REGISTERS, rv.iv, p)}

request_write_allocation(st, var_id, p, interval) ==
    IF st.assignment[var_id] # <<>>
    THEN LET last_allocation == Last(st.assignment[var_id])
         IN  IF alive_for_reading(last_allocation.iv, p)
             THEN {[st |-> st, reg |-> last_allocation.reg, victim |-> NoVar,
                    revived |-> FALSE]}
             ELSE LET rv == revive(st, var_id, p)
                  IN  IF rv.st.err # "none"
                      THEN {Failed(rv.st)}
                      ELSE {[st |-> o.st, reg |-> o.reg, victim |-> o.victim,
                             revived |-> TRUE]
                            : o \in find_allocate_or_spill(rv.st, var_id,
                                                           VARIABLE_REGISTERS, rv.iv, p)}
    ELSE {[st |-> o.st, reg |-> o.reg, victim |-> o.victim, revived |-> FALSE]
          : o \in find_allocate_or_spill(st, var_id, VARIABLE_REGISTERS, interval, p)}

request_scratch_register(st, var_id, p) ==
    {[st |-> o.st, reg |-> o.reg, victim |-> o.victim, revived |-> FALSE]
     : o \in find_allocate_or_spill(st, var_id, SCRATCH_VARIABLE_ALLOWED_REGISTERS,
                                    Point(p), p)}

scan_and_desctivate(st, p) ==
    [st EXCEPT !.active =
        {q \in @ : HasKey(live_intervals, q[1])
                   /\ alive_for_reading(Get(live_intervals, q[1]), p)}]

\* todo!(..): the feature is not implemented
Todo(st, text) == [st EXCEPT !.err = "todo", !.msg = text]

RECURSIVE SetParamAndRetFrom(_, _, _, _)
\* the loop of set_param_and_ret_registers from variable idx on; doubles are
\* the variables whose type takes a register pair
SetParamAndRetFrom(st, idx, param_register_size, doubles) ==
    IF idx >= NumVars \/ st.err # "none"
    THEN st
    ELSE IF var_table[idx] = "Param"
    THEN IF idx \in doubles
         THEN Todo(st, "not yet implemented: Support doubles")
         ELSE IF param_register_size + 1 < Len(RESULT_REGISTERS)
         THEN IF param_register_size + 1 > Len(PARAM_REGISTERS)
                 \/ ~HasKey(live_intervals, idx)
              THEN Panic(st)
              ELSE SetParamAndRetFrom(
                       allocate_register(st, idx, PARAM_REGISTERS[param_register_size + 1],
                                         0, Get(live_intervals, idx)),
                       idx + 1, param_register_size + 1, doubles)
         ELSE \* spill param onto stack
              SetParamAndRetFrom(spill_var(st, idx, 0), idx + 1, param_register_size,
                                 doubles)
    ELSE IF var_table[idx] = "Ret"
    THEN IF idx \in doubles
         THEN Todo(st, "not yet implemented: Support doubles")
         ELSE IF Len(RESULT_REGISTERS) = 0 \/ ~HasKey(live_intervals, idx)
         THEN Panic(st)
         ELSE SetParamAndRetFrom(
                  allocate_register(st, idx, RESULT_REGISTERS[1], 0,
                                    Get(live_intervals, idx)),
                  idx + 1, param_register_size, doubles)
    ELSE SetParamAndRetFrom(st, idx + 1, param_register_size, doubles)

set_param_and_ret_registers(st, doubles) == SetParamAndRetFrom(st, 0, 0, doubles)

(***************************************************************************)
(* Sorting the interval table by starting point (IndexMap::sort_by is a    *)
(* stable sort).                                                           *)
(***************************************************************************)
RECURSIVE InsertByStart(_, _)
InsertByStart(sorted, x) ==
    IF sorted = <<>> THEN <<x>>
    ELSE IF Last(sorted)[2][1] <= x[2][1] THEN Append(sorted, x)
    ELSE Append(InsertByStart(Front(sorted), x), Last(sorted))

\* a table left in the order of its insertions and removals
KeepOrder(tbl) == tbl

RECURSIVE SortByStart(_)
SortByStart(tbl) ==
    IF tbl = <<>> THEN <<>> ELSE InsertByStart(SortByStart(Front(tbl)), Last(tbl))

(***************************************************************************)
(* The allocator as a state machine: its caller walks the positions in     *)
(* order and issues requests at the position it has reached.               *)
(***************************************************************************)
RECURSIVE TableOf(_, _)
\* the interval table holding f[v] for the variables below n
TableOf(f, n) ==
    IF n = 0 THEN <<>> ELSE Append(TableOf(f, n - 1), <<n - 1, f[n - 1]>>)

\* A variable is live over the whole function or over one instruction and the next.
LiveChoices(v) ==
    {<<0, MaxPos>>, <<Min(v, MaxPos - 1), Min(v, MaxPos - 1) + 1>>}

LiveTables ==
    {SortByStart(TableOf(f, NumVars)) :
        f \in {g \in [Vars -> Positions \X Positions] : \A v \in Vars : g[v] \in LiveChoices(v)}}

\* Declarations: the parameters, then the return value, then the temporaries.
KindRank(kind) ==
    CASE kind = "Param" -> 0 [] kind = "Ret" -> 1 [] kind = "FixedTemp" -> 2 [] OTHER -> 3

KindTables ==
    {f \in [Vars -> VarKind] :
        /\ \A v, w \in Vars : v < w => KindRank(f[v]) <= KindRank(f[w])
        /\ Cardinality({v \in Vars : f[v] = "Ret"}) <= 1
        /\ Cardinality({v \in Vars : f[v] = "FixedTemp"}) <= 1}

InitAlloc ==
    /\ NoExprParser
    /\ var_table \in KindTables
    /\ live_intervals \in LiveTables
    /\ var_collapse = [v \in Vars |-> NoVar]
    /\ assignment = [v \in Ids |-> <<>>]
    /\ spilled = [v \in Ids |-> <<>>]
    /\ active = {}
    /\ scratch_register_counter = UsizeMax
    /\ pos = 0
    /\ err = "none"
    /\ ops = 0
    /\ last = NoOp
    /\ bb = <<>>
    /\ cycle_count = <<>>
    /\ input_count = <<>>
    /\ bfs_q = <<>>
    /\ vis = {}
    /\ bb_arrangement = <<>>
    /\ bb_start_pos = <<>>
    /\ pc = "scanned"
    /\ offset = 0
    /\ inst_idx = 0
    /\ reads = {}

\* one more operation is issued, and the tables become those of st; a panic
\* unwinds the pass, which drops the tables
Becomes(st) ==
    /\ ops < MaxOps
    /\ ops' = ops + 1
    /\ assignment' = IF st.err = "none" THEN st.assignment ELSE [v \in Ids |-> <<>>]
    /\ spilled' = IF st.err = "none" THEN st.spilled ELSE [v \in Ids |-> <<>>]
    /\ active' = IF st.err = "none" THEN st.active ELSE {}
    /\ err' = st.err

Returned(name, var_id, o) ==
    [op |-> name, var |-> var_id,
     reg |-> IF o.st.err = "none" THEN o.reg ELSE NoReg,
     victim |-> IF o.st.err = "none" THEN o.victim ELSE NoVar,
     revived |-> o.revived /\ o.st.err = "none", pos |-> pos, msg |-> o.st.msg]

Did(name, var_id, reg) ==
    [op |-> name, var |-> var_id, reg |-> reg, victim |-> NoVar, revived |-> FALSE,
     pos |-> pos, msg |-> ""]

\* the types a function may declare: at most one variable is a double
DoubleSets == {{}} \cup {{v} : v \in Vars}

\* the first parameter or return value of a double type, if any
FirstDouble(doubles) ==
    LET D == {v \in doubles : var_table[v] \in {"Param", "Ret"}}
    IN  IF D = {} THEN NoVar ELSE CHOOSE v \in D : \A w \in D : v <= w

SetParamAndRet ==
    /\ err = "none" /\ last.op = "new"
    /\ \E doubles \in DoubleSets :
          LET st == set_param_and_ret_registers(AllocState, doubles)
          IN  /\ Becomes(st)
              /\ last' = [Did("set_param_and_ret_registers", FirstDouble(doubles), NoReg)
                            EXCEPT !.msg = st.msg]
    /\ UNCHANGED <<fnVars, scanVars, exprVars, var_table, live_intervals, var_collapse, scratch_register_counter, pos>>

Advance ==
    /\ err = "none" /\ pos < MaxPos
    /\ pos' = pos + 1
    /\ last' = Did("advance", NoVar, NoReg)
    /\ UNCHANGED <<fnVars, scanVars, exprVars, var_table, live_intervals, var_collapse, assignment, spilled, active,
                   scratch_register_counter, err, ops>>

RequestRead(var_id) ==
    /\ err = "none"
    /\ \E o \in request_read_allocation(AllocState, var_id, pos) :
          /\ Becomes(o.st)
          /\ last' = Returned("request_read_allocation", var_id, o)
    /\ UNCHANGED <<fnVars, scanVars, exprVars, var_table, live_intervals, var_collapse, scratch_register_counter, pos>>

RequestWrite(var_id) ==
    /\ err = "none"
    /\ HasKey(live_intervals, var_id)
    /\ alive_for_reading(Get(live_intervals, var_id), pos)
    /\ \E o \in request_write_allocation(AllocState, var_id, pos,
                                         Get(live_intervals, var_id)) :
          /\ Becomes(o.st)
          /\ last' = Returned("request_write_allocation", var_id, o)
    /\ UNCHANGED <<fnVars, scanVars, exprVars, var_table, live_intervals, var_collapse, scratch_register_counter, pos>>

\* a counter that is not decremented hands out the same id again
RequestScratchSameId ==
    /\ err = "none"
    /\ scratch_register_counter > UsizeMax - MaxScratch
    /\ \E o \in request_scratch_register(AllocState, scratch_register_counter, pos) :
          /\ Becomes(o.st)
          /\ last' = Returned("request_scratch_register", scratch_register_counter, o)
    /\ UNCHANGED <<fnVars, scanVars, exprVars, var_table, live_intervals, var_collapse, pos,
                   scratch_register_counter>>

RequestScratch ==
    /\ err = "none"
    /\ scratch_register_counter > UsizeMax - MaxScratch
    /\ scratch_register_counter' = scratch_register_counter - 1
    /\ \E o \in request_scratch_register(AllocState, scratch_register_counter, pos) :
          /\ Becomes(o.st)
          /\ last' = Returned("request_scratch_register", scratch_register_counter, o)
    /\ UNCHANGED <<fnVars, scanVars, exprVars, var_table, live_intervals, var_collapse, pos>>

RequestAllocateMemory(var_id) ==
    /\ err = "none"
    /\ Becomes(spill_var(AllocState, var_id, pos))
    /\ last' = Did("request_allocate_memory", var_id, NoReg)
    /\ UNCHANGED <<fnVars, scanVars, exprVars, var_table, live_intervals, var_collapse, scratch_register_counter, pos>>

ForceFreeRegister(reg) ==
    /\ err = "none"
    /\ Becomes(spill_reg(AllocState, reg, pos))
    /\ last' = Did("force_free_register", NoVar, reg)
    /\ UNCHANGED <<fnVars, scanVars, exprVars, var_table, live_intervals, var_collapse, scratch_register_counter, pos>>

ScanAndDeactivate ==
    /\ err = "none"
    /\ Becomes(scan_and_desctivate(AllocState, pos))
    /\ last' = Did("scan_and_desctivate", NoVar, NoReg)
    /\ UNCHANGED <<fnVars, scanVars, exprVars, var_table, live_intervals, var_collapse, scratch_register_counter, pos>>

NextAlloc ==
    \/ SetParamAndRet
    \/ Advance
    \/ \E v \in Vars : RequestRead(v)
    \/ \E v \in Vars : RequestWrite(v)
    \/ RequestScratch
    \/ \E v \in Vars : RequestAllocateMemory(v)
    \/ \E r \in Regs : ForceFreeRegister(r)
    \/ ScanAndDeactivate

SpecAlloc == InitAlloc /\ [][NextAlloc]_vars

(***************************************************************************)
(* BasicBlkIntervals: the interval scanner.  The instructions refer to     *)
(* variables by mir::VarRef and to operands by mir::Value.                 *)
(***************************************************************************)
Local(id) == <<"Local", id>>

Global == <<"Global", NoVar>>

Const == <<"Const", NoVar>>

VarRefs == {Local(v) : v \in Vars} \cup {Global}

Values == VarRefs \cup {Const}

\* VarRef::get_local_id of each reference that has one, in order
RECURSIVE LocalIds(_)
LocalIds(refs) ==
    IF refs = <<>> THEN <<>>
    ELSE IF Head(refs)[1] = "Local" THEN <<Head(refs)[2]>> \o LocalIds(Tail(refs))
    ELSE LocalIds(Tail(refs))

\* the tables the scanner borrows from the allocator
ScanState == [intervals |-> live_intervals, var_collapse |-> var_collapse, err |-> err]

Crash(st, how) == [st EXCEPT !.err = how]

\* IndexMap::insert: in place for a key the map holds, at the end otherwise
MapInsert(tbl, k, x) ==
    IF HasKey(tbl, k)
    THEN SubSeq(tbl, 1, IndexOf(tbl, k) - 1) \o <<<<k, x>>>>
            \o SubSeq(tbl, IndexOf(tbl, k) + 1, Len(tbl))
    ELSE Append(tbl, <<k, x>>)

\* IndexMap::remove (swap_remove): the last entry takes the place of the removed one
MapRemove(tbl, k) ==
    IF ~HasKey(tbl, k) THEN tbl
    ELSE IF IndexOf(tbl, k) = Len(tbl) THEN Front(tbl)
    ELSE SubSeq(tbl, 1, IndexOf(tbl, k) - 1) \o <<Last(tbl)>>
            \o SubSeq(tbl, IndexOf(tbl, k) + 1, Len(tbl) - 1)

RECURSIVE get_collapsed_var_optional(_, _, _)
\* [vc, res, overflow]: the table after the rewrites, the id found (NoVar for
\* None); depth is the number of nested calls left before the stack overflows,
\* which a chain without a cycle never uses up
get_collapsed_var_optional(vc, var, depth) ==
    IF vc[var] = NoVar THEN [vc |-> vc, res |-> NoVar, overflow |-> FALSE]
    ELSE IF depth = 0 THEN [vc |-> vc, res |-> NoVar, overflow |-> TRUE]
    ELSE LET r == get_collapsed_var_optional(vc, vc[var], depth - 1)
         IN  IF r.overflow THEN r
             ELSE IF r.res # NoVar
             THEN [vc |-> [r.vc EXCEPT ![var] = r.res], res |-> r.res, overflow |-> FALSE]
             ELSE [vc |-> r.vc, res |-> vc[var], overflow |-> FALSE]

\* a lookup that stops at the entry of the variable
GetCollapsedVarOneStep(st, var) ==
    [st |-> st,
     res |-> IF st.var_collapse[var] = NoVar THEN var ELSE st.var_collapse[var]]

\* [st, res]
get_collapsed_var(st, var) ==
    LET r == get_collapsed_var_optional(st.var_collapse, var, NumVars)
    IN  IF r.overflow THEN [st |-> Crash(st, "overflow"), res |-> var]
        ELSE [st |-> [st EXCEPT !.var_collapse = r.vc],
              res |-> IF r.res = NoVar THEN var ELSE r.res]

RECURSIVE CollapseEach(_, _, _, _)
\* the loop of collapse_var over targets, from the i-th on
CollapseEach(st, var, targets, i) ==
    IF st.err # "none" \/ i > Len(targets) THEN st
    ELSE IF targets[i] < var THEN Crash(st, "internal")
    ELSE IF targets[i] = var THEN CollapseEach(st, var, targets, i + 1)
    ELSE LET g == get_collapsed_var(st, targets[i])
         IN  IF g.st.err # "none" THEN g.st
             ELSE IF g.st.var_collapse[g.res] # NoVar THEN Crash(g.st, "internal")
             ELSE CollapseEach([g.st EXCEPT !.var_collapse[g.res] = var],
                               var, targets, i + 1)

collapse_var(st, var, targets) ==
    LET g == get_collapsed_var(st, var)
    IN  IF g.st.err # "none" THEN g.st ELSE CollapseEach(g.st, g.res, targets, 1)

RECURSIVE InsertSorted(_, _)
InsertSorted(sorted, x) ==
    IF sorted = <<>> THEN <<x>>
    ELSE IF Last(sorted) <= x THEN Append(sorted, x)
    ELSE Append(InsertSorted(Front(sorted), x), Last(sorted))

RECURSIVE Sort(_)
\* Vec::sort
Sort(v) == IF v = <<>> THEN <<>> ELSE InsertSorted(Sort(Front(v)), Last(v))

RECURSIVE FoldRemove(_, _, _, _, _)
\* the fold of collapse_intervals over v from the i-th on: [intervals, interval]
FoldRemove(tbl, v, i, interval, default_pos) ==
    IF i > Len(v) THEN [intervals |-> tbl, interval |-> interval]
    ELSE FoldRemove(MapRemove(tbl, v[i]), v, i + 1,
                    Union(interval,
                          IF HasKey(tbl, v[i]) THEN Get(tbl, v[i]) ELSE Point(default_pos)),
                    default_pos)

collapse_intervals(st, ids, default_pos) ==
    IF ids = <<>> THEN Crash(st, "internal")
    ELSE LET v == Sort(ids)
             g == get_collapsed_var(st, v[1])
             collapse_tgt == g.res
             entered == IF HasKey(g.st.intervals, collapse_tgt) THEN g.st.intervals
                        ELSE Append(g.st.intervals, <<collapse_tgt, Point(default_pos)>>)
             folded == FoldRemove(entered, Tail(v), 1, Get(entered, collapse_tgt),
                                  default_pos)
             merged == MapInsert(folded.intervals, collapse_tgt, folded.interval)
         IN  IF g.st.err # "none" THEN g.st
             ELSE collapse_var([g.st EXCEPT !.intervals = merged], collapse_tgt, Tail(v))

interval_start(st, var, p) ==
    LET g == get_collapsed_var(st, var)
    IN  IF g.st.err # "none" THEN g.st
        ELSE IF HasKey(g.st.intervals, g.res)
        THEN [g.st EXCEPT !.intervals =
                 MapInsert(@, g.res, update_starting_pos(Get(@, g.res), p))]
        ELSE [g.st EXCEPT !.intervals = Append(@, <<g.res, Point(p)>>)]

interval_end(st, var, p) ==
    LET g == get_collapsed_var(st, var)
    IN  IF g.st.err # "none" THEN g.st
        ELSE IF HasKey(g.st.intervals, g.res)
        THEN [g.st EXCEPT !.intervals =
                 MapInsert(@, g.res, update_ending_pos(Get(@, g.res), p))]
        ELSE [g.st EXCEPT !.intervals = Append(@, <<g.res, Point(p)>>)]

var_interval_start(st, val, p) ==
    IF val[1] = "Local" THEN interval_start(st, val[2], p) ELSE st

\* an end of interval that passes over a Global operand
ValueIntervalEndSkipsGlobal(st, val, p) ==
    IF st.err # "none" THEN st
    ELSE IF val[1] = "Local" THEN interval_end(st, val[2], p)
    ELSE st

value_interval_end(st, val, p) ==
    IF st.err # "none" THEN st
    ELSE IF val[1] = "Local" THEN interval_end(st, val[2], p)
    ELSE IF val[1] = "Global" THEN Crash(st, "todo")
    ELSE st

RECURSIVE StartEach(_, _, _)
StartEach(st, ids, p) ==
    IF st.err # "none" \/ ids = <<>> THEN st
    ELSE StartEach(interval_start(st, Head(ids), p), Tail(ids), p)

RECURSIVE EndEach(_, _, _)
EndEach(st, ids, p) ==
    IF st.err # "none" \/ ids = <<>> THEN st
    ELSE EndEach(interval_end(st, Head(ids), p), Tail(ids), p)

RECURSIVE EndValues(_, _, _)
EndValues(st, vals, p) ==
    IF st.err # "none" \/ vals = <<>> THEN st
    ELSE EndValues(value_interval_end(st, Head(vals), p), Tail(vals), p)

(***************************************************************************)
(* FnCodegen::scan_intervals walks the arranged blocks; the function is    *)
(* read as the walk goes: a block's uses_var when it is entered, one       *)
(* instruction at a time, its terminator and the uses_var of its           *)
(* successors when it is left.                                             *)
(***************************************************************************)
\* the orders a HashSet of at most MaxUses variables can be iterated in
VarOrders ==
    {s \in UNION {[1 .. n -> Vars] : n \in 0 .. MaxUses} :
        \A i, j \in DOMAIN s : i # j => s[i] # s[j]}

\* operand lists: one operand (TyCon, Asn, Una), two (Bin), any number (Call)
ValueLists == UNION {[1 .. n -> Values] : n \in 1 .. MaxOperands}

\* the operands of a Phi
PhiLists == UNION {[1 .. n -> VarRefs] : n \in 0 .. MaxOperands}

\* what a terminator reads: nothing (Jump, Return(None)) or a value
CondLists == {<<>>} \cup {<<val>> : val \in Values \ {Const}}

\* the tables after a step of the scanner; a crash ends the pass and drops them
Scanned(st) ==
    /\ live_intervals' = IF st.err = "none" THEN st.intervals ELSE <<>>
    /\ var_collapse' = IF st.err = "none" THEN st.var_collapse ELSE [v \in Vars |-> NoVar]
    /\ err' = st.err

ReadsOf(vals, p) == {<<id, p>> : id \in Range(LocalIds(vals))}

InitScan ==
    /\ bb = <<>>
    /\ bb_arrangement = <<>>
    /\ pc = "laid_out"
    /\ FreshCodegen

\* the loop of FnCodegen::scan_intervals reaches the next block; the scanner
\* starts the intervals of its uses_var
BlockStart(uses) ==
    /\ pc = "laid_out" /\ err = "none"
    /\ Len(bb_arrangement) < MaxScanBlocks
    /\ bb_arrangement' = Append(bb_arrangement, Len(bb_arrangement))
    /\ bb_start_pos' = Append(bb_start_pos, <<Len(bb_arrangement), offset>>)
    /\ Scanned(StartEach(ScanState, uses, offset))
    /\ inst_idx' = 0
    /\ pc' = "block"
    /\ last' = [op |-> "uses_var", tgt |-> Global, vals |-> uses, pos |-> offset]
    /\ UNCHANGED <<bb, cycle_count, input_count, bfs_q, vis, offset, reads, exprVars, var_table,
                   assignment, spilled, active, scratch_register_counter, pos, ops>>

\* an instruction that reads its operands: TyCon, Asn, Bin, Una, Call
ScanRead(tgt, vals) ==
    /\ pc = "block" /\ err = "none"
    /\ inst_idx < MaxInst /\ ops < MaxOps
    /\ Scanned(EndValues(var_interval_start(ScanState, tgt, offset + inst_idx), vals,
                         offset + inst_idx))
    /\ reads' = reads \cup ReadsOf(vals, offset + inst_idx)
    /\ inst_idx' = inst_idx + 1
    /\ ops' = ops + 1
    /\ last' = [op |-> "Read", tgt |-> tgt, vals |-> vals, pos |-> offset + inst_idx]
    /\ UNCHANGED <<bb, cycle_count, input_count, bfs_q, vis, bb_arrangement, bb_start_pos,
                   pc, offset, exprVars, var_table, assignment, spilled, active,
                   scratch_register_counter, pos>>

\* a RestRead instruction
ScanRestRead(tgt) ==
    /\ pc = "block" /\ err = "none"
    /\ inst_idx < MaxInst /\ ops < MaxOps
    /\ LET st == var_interval_start(ScanState, tgt, offset + inst_idx)
       IN  Scanned(IF st.err # "none" THEN st ELSE Crash(st, "todo"))
    /\ inst_idx' = inst_idx + 1
    /\ ops' = ops + 1
    /\ last' = [op |-> "RestRead", tgt |-> tgt, vals |-> <<>>, pos |-> offset + inst_idx]
    /\ UNCHANGED <<bb, cycle_count, input_count, bfs_q, vis, bb_arrangement, bb_start_pos,
                   pc, offset, reads, exprVars, var_table, assignment, spilled, active,
                   scratch_register_counter, pos>>

\* a Phi instruction
ScanPhi(tgt, vals) ==
    /\ pc = "block" /\ err = "none"
    /\ inst_idx < MaxInst /\ ops < MaxOps
    /\ Scanned(collapse_intervals(var_interval_start(ScanState, tgt, offset + inst_idx),
                                  LocalIds(<<tgt>> \o vals), offset + inst_idx))
    /\ inst_idx' = inst_idx + 1
    /\ ops' = ops + 1
    /\ last' = [op |-> "Phi", tgt |-> tgt, vals |-> vals, pos |-> offset + inst_idx]
    /\ UNCHANGED <<bb, cycle_count, input_count, bfs_q, vis, bb_arrangement, bb_start_pos,
                   pc, offset, reads, exprVars, var_table, assignment, spilled, active,
                   scratch_register_counter, pos>>

\* the terminator (cond is what a Conditional or a Return reads, <<>> if nothing),
\* the uses_var of the successors, and the sort that ends scan_intervals
BlockEnd(cond, bb_next_vars) ==
    /\ pc = "block" /\ err = "none"
    /\ LET self_end == offset + inst_idx
           st == EndEach(EndValues(ScanState, cond, self_end), bb_next_vars, self_end + 1)
       IN  /\ Scanned([st EXCEPT !.intervals = SortByStart(@)])
           /\ reads' = reads \cup ReadsOf(cond, self_end)
           /\ last' = [op |-> "end", tgt |-> Global, vals |-> cond, pos |-> self_end]
    /\ offset' = NextStart(offset, inst_idx)
    /\ pc' = "laid_out"
    /\ UNCHANGED <<bb, cycle_count, input_count, bfs_q, vis, bb_arrangement, bb_start_pos,
                   inst_idx, exprVars, var_table, assignment, spilled, active, scratch_register_counter,
                   pos, ops>>

\* the last arranged block has been scanned
ScanReturn ==
    /\ pc = "laid_out" /\ err = "none"
    /\ bb_arrangement # <<>>
    /\ pc' = "scanned"
    /\ UNCHANGED <<bb, cycle_count, input_count, bfs_q, vis, bb_arrangement, bb_start_pos,
                   offset, inst_idx, reads, allocVars, exprVars>>

NextScan ==
    \/ \E uses \in VarOrders : BlockStart(uses)
    \/ \E tgt \in VarRefs : \E vals \in ValueLists : ScanRead(tgt, vals)
    \/ \E tgt \in VarRefs : \E vals \in PhiLists : ScanPhi(tgt, vals)
    \/ \E tgt \in VarRefs : ScanRestRead(tgt)
    \/ \E cond \in CondLists :
          \E bb_next_vars \in VarOrders : BlockEnd(cond, bb_next_vars)
    \/ ScanReturn

SpecScan == InitScan /\ [][NextScan]_vars

(***************************************************************************)
(* Properties of the allocator.                                            *)
(***************************************************************************)
\* the entry holds its register at position p: p is inside the entry's interval,
\* its last position left to the next holder of the register
Occupies(entry, p) == entry.iv[1] <= p /\ p < entry.iv[2]

Entries(var_id) == {assignment[var_id][i] : i \in 1 .. Len(assignment[var_id])}

\* C1: at no position do two distinct variables occupy the same physical
\* register according to the Assignment table.
RegisterExclusivity ==
    \A v, w \in Ids : v # w =>
        \A a \in Entries(v), b \in Entries(w) :
            a.reg = b.reg => ~\E p \in 0 .. MaxPos : Occupies(a, p) /\ Occupies(b, p)

LiveEnd(var_id) == Get(live_intervals, var_id)[2]

LiveStart(var_id) == Get(live_intervals, var_id)[1]

\* var_id holds one register fragment s..P and one spill fragment P..e: it was
\* assigned a register over s..e and spilled at P
SpilledOnceAt(var_id, P) ==
    /\ Len(assignment[var_id]) = 1 /\ Len(spilled[var_id]) = 1
    /\ assignment[var_id][1].iv[2] = P /\ spilled[var_id][1][1] = P
    /\ assignment[var_id][1].iv[1] <= P /\ P <= spilled[var_id][1][2]

\* C2: a read or write request that revives, at a position P' > P, a variable
\* assigned a register over s..e and spilled at P leaves the register fragment
\* s..P, the spill fragment P..P' and a new register fragment P'..e, which
\* together cover exactly s..e.
SplitRoundTrip ==
    [][\A v \in Vars : \A P \in Positions :
          (/\ SpilledOnceAt(v, P)
           /\ pos > P
           /\ ops' = ops + 1 /\ last'.revived /\ last'.var = v)
          => (/\ Len(assignment'[v]) = 2
              /\ assignment'[v][1] = assignment[v][1]
              /\ assignment'[v][2].iv = <<pos, spilled[v][1][2]>>
              /\ spilled'[v] = << <<P, pos>> >>)]_vars

\* C3: the variable find-or-spill chose to spill is never of kind FixedTemp or Ret.
PinnedNeverEvicted ==
    last.victim # NoVar => var_table[last.victim] \notin {"FixedTemp", "Ret"}

\* a victim was chosen while a FixedTemp or Ret variable held a register of the
\* variable pool
PinnedPassedOver ==
    /\ last.victim # NoVar
    /\ \E q \in active :
          /\ q[1] \in Vars
          /\ var_table[q[1]] \in {"FixedTemp", "Ret"}
          /\ q[2] \in Range(VARIABLE_REGISTERS)
          /\ q[2] # last.reg

ParamsBefore(var_id) == Cardinality({w \in Vars : w < var_id /\ var_table[w] = "Param"})

\* C10: after the parameter binding of a function without double types, no
\* internal error was raised, the first k
\* parameters hold the parameter registers 0..k-1 from position 0 and every
\* further parameter is recorded as spilled from position 0.
ParameterBinding ==
    (last.op = "set_param_and_ret_registers" /\ last.var = NoVar) =>
        /\ err = "none"
        /\ \A v \in Vars : var_table[v] = "Param" =>
              IF ParamsBefore(v) < Len(PARAM_REGISTERS)
              THEN /\ assignment[v] # <<>>
                   /\ assignment[v][1].reg = PARAM_REGISTERS[ParamsBefore(v) + 1]
              ELSE /\ spilled[v] # <<>>
                   /\ spilled[v][1][1] = 0

(***************************************************************************)
(* Properties of the linearizer.                                           *)
(***************************************************************************)
RECURSIVE ReachClosure(_, _)
ReachClosure(blocks, S) ==
    LET N == S \cup {b \in DOMAIN blocks : \E a \in S : a \in jump_in(blocks, b)}
    IN  IF N = S THEN S ELSE ReachClosure(blocks, N)

\* the blocks reachable from block 0
Reachable == ReachClosure(bb, {0})

\* the edge a -> b closes a loop: a is reachable from b
LoopBack(a, b) == a \in ReachClosure(bb, {b})

Arranged == Range(bb_arrangement)

Place(id) == PathIndex(bb_arrangement, id)

\* C4: once the blocks are arranged, the arrangement holds exactly the blocks
\* reachable from block 0, each once, and the start-position table holds no
\* unreachable block.
ArrangementCoverage ==
    pc \in {"arranged", "laid_out"} =>
        /\ Arranged = Reachable
        /\ \A i, j \in DOMAIN bb_arrangement : i # j => bb_arrangement[i] # bb_arrangement[j]
        /\ Keys(bb_start_pos) \subseteq Reachable

\* C5: when every block of the function is reachable, an arranged block comes
\* after each of its predecessors that reaches it by an edge that closes no loop.
PredecessorOrdering ==
    (pc = "arranged" /\ Reachable = DOMAIN bb) =>
        \A b \in Arranged : \A a \in jump_in(bb, b) :
            ~LoopBack(a, b) => (a \in Arranged /\ Place(a) < Place(b))

Start(id) == Get(bb_start_pos, id)

\* the start positions follow the accumulation: 0, then start + count + 1
StartsAccumulate ==
    /\ Start(bb_arrangement[1]) = 0
    /\ \A i \in 2 .. Len(bb_arrangement) :
          /\ Start(bb_arrangement[i]) =
                Start(bb_arrangement[i - 1]) + bb[bb_arrangement[i - 1]].inst + 1
          /\ Start(bb_arrangement[i - 1]) < Start(bb_arrangement[i])

\* the instruction positions of a block leave no gap
Contiguous(id) ==
    \A p \in InstPositions(id) : p = Start(id) \/ (p - 1) \in InstPositions(id)

\* C9 as stated: the instruction positions of a block lie strictly between its
\* start and the start of the next block.
PositionLayoutStrict ==
    pc = "laid_out" =>
        /\ StartsAccumulate
        /\ \A i \in DOMAIN bb_arrangement : \A p \in InstPositions(bb_arrangement[i]) :
              /\ Contiguous(bb_arrangement[i])
              /\ Start(bb_arrangement[i]) < p
              /\ i < Len(bb_arrangement) => p < Start(bb_arrangement[i + 1])

\* C9: the first block starts at 0, each later block at the start of the block
\* before it plus that block's instruction count plus 1, and the instruction
\* positions of a block are contiguous, begin at its start and end before the
\* start of the next block.
PositionLayout ==
    pc = "laid_out" =>
        /\ StartsAccumulate
        /\ \A i \in DOMAIN bb_arrangement : \A p \in InstPositions(bb_arrangement[i]) :
              /\ Contiguous(bb_arrangement[i])
              /\ Start(bb_arrangement[i]) <= p
              /\ i < Len(bb_arrangement) => p < Start(bb_arrangement[i + 1])

\* three blocks are laid out, one without instructions before one with some
LaidOutThree ==
    /\ pc = "laid_out"
    /\ Len(bb_arrangement) = 3
    /\ bb[bb_arrangement[1]].inst = 0
    /\ bb[bb_arrangement[2]].inst > 1

(***************************************************************************)
(* Properties of the interval scanner.                                     *)
(***************************************************************************)
RECURSIVE Root(_, _, _)
\* the id a chain of the collapse table ends at; NoVar when it does not end
Root(vc, var, depth) ==
    IF vc[var] = NoVar THEN var
    ELSE IF depth = 0 THEN NoVar
    ELSE Root(vc, vc[var], depth - 1)

Canonical(var) == Root(var_collapse, var, NumVars)

\* every chain of the collapse table ends
ChainsEnd(vc) == \A v \in Vars : Root(vc, v, NumVars) # NoVar

\* C6: once all blocks are scanned (and the collapse table holds no cycle), the
\* interval stored under the canonical id of every variable read at a position
\* P contains P.
IntervalSoundness ==
    (pc = "scanned" /\ err = "none" /\ ChainsEnd(var_collapse)) =>
        \A r \in reads :
            /\ HasKey(live_intervals, Canonical(r[1]))
            /\ Get(live_intervals, Canonical(r[1]))[1] <= r[2]
            /\ r[2] <= Get(live_intervals, Canonical(r[1]))[2]

\* the tables when the target of the instruction at p has been started
Started(tgt, p) == var_interval_start(ScanState, tgt, p)

\* the interval a member of a phi has before the merge
PreInterval(st, var, p) ==
    LET c == Root(st.var_collapse, var, NumVars)
    IN  IF c # NoVar /\ HasKey(st.intervals, c) THEN Get(st.intervals, c) ELSE Point(p)

\* C7: a phi instruction (that leaves no cycle in the collapse table) leaves
\* its members with one canonical id, and the interval stored under it is the
\* union of the intervals its members had before the merge.
PhiMerging ==
    [][\A tgt \in VarRefs : \A vals \in PhiLists :
          (/\ pc = "block" /\ ops' = ops + 1 /\ err' = "none"
           /\ ChainsEnd(var_collapse')
           /\ last' = [op |-> "Phi", tgt |-> tgt, vals |-> vals, pos |-> offset + inst_idx])
          => \A A, B \in Range(LocalIds(<<tgt>> \o vals)) :
                LET c == Root(var_collapse', A, NumVars)
                    st == Started(tgt, offset + inst_idx)
                IN  /\ c = Root(var_collapse', B, NumVars)
                    /\ HasKey(live_intervals', c)
                    /\ \A m \in Range(LocalIds(<<tgt>> \o vals)) :
                          /\ Get(live_intervals', c)[1] <= PreInterval(st, m, offset + inst_idx)[1]
                          /\ PreInterval(st, m, offset + inst_idx)[2] <= Get(live_intervals', c)[2]
                    /\ \E m \in Range(LocalIds(<<tgt>> \o vals)) :
                          Get(live_intervals', c)[1] = PreInterval(st, m, offset + inst_idx)[1]
                    /\ \E m \in Range(LocalIds(<<tgt>> \o vals)) :
                          Get(live_intervals', c)[2] = PreInterval(st, m, offset + inst_idx)[2]]_vars

\* C8: every entry v -> t of the collapse table has t <= v.
CollapseOrdering ==
    \A v \in Vars : var_collapse[v] # NoVar => var_collapse[v] <= v

(***************************************************************************)
(* Further properties of the allocator.                                    *)
(***************************************************************************)
\* every variable that was given a register has a live interval that ended
\* before p, and no scratch register was handed out
AllEndedBefore(p) ==
    /\ scratch_register_counter = UsizeMax
    /\ \A w \in Vars : assignment[w] # <<>> =>
          HasKey(live_intervals, w) /\ LiveEnd(w) < p

\* C11: a write request for a variable not yet assigned, issued at a position
\* after the end of the live interval of every variable given a register so
\* far, returns a register of the variable pool and records no spill.
ReuseWithoutSpill ==
    [][\A v \in Vars :
          (/\ assignment[v] = <<>> /\ spilled[v] = <<>>
           /\ \E w \in Vars : assignment[w] # <<>>
           /\ AllEndedBefore(pos)
           /\ ops' = ops + 1
           /\ last'.op = "request_write_allocation" /\ last'.var = v)
          => (/\ err' = "none"
              /\ last'.reg \in Range(VARIABLE_REGISTERS)
              /\ spilled' = spilled)]_vars

\* C12: when request_read_allocation(var, pos) returns register r, the Active
\* map binds var to r and r to var, and the latest assignment entry of var
\* names r with an interval valid for reading at pos.
ReadReturnsHolder ==
    (last.op = "request_read_allocation" /\ err = "none") =>
        /\ last.reg \in Regs
        /\ <<last.var, last.reg>> \in active
        /\ \A q \in active : (q[1] = last.var \/ q[2] = last.reg) => q = <<last.var, last.reg>>
        /\ assignment[last.var] # <<>>
        /\ Last(assignment[last.var]).reg = last.reg
        /\ alive_for_reading(Last(assignment[last.var]).iv, last.pos)

\* C13: a call of request_scratch_register(pos) that returns used an id that
\* is no variable id and that no earlier call used, returned a register of
\* the scratch-eligible pool and recorded for the id the one assignment entry
\* pos..pos in that register.
ScratchFresh ==
    [][(ops' = ops + 1 /\ last'.op = "request_scratch_register" /\ err' = "none")
       => /\ last'.var \notin Vars
          /\ assignment[last'.var] = <<>> /\ spilled[last'.var] = <<>>
          /\ ~ContainsLeft(active, last'.var)
          /\ last'.reg \in Range(SCRATCH_VARIABLE_ALLOWED_REGISTERS)
          /\ assignment'[last'.var] = <<[iv |-> Point(pos), reg |-> last'.reg]>>
          /\ <<last'.var, last'.reg>> \in active']_vars

\* a second scratch register was handed out
SecondScratch ==
    /\ last.op = "request_scratch_register" /\ err = "none"
    /\ last.var = UsizeMax - 1
    /\ assignment[UsizeMax] # <<>>

(***************************************************************************)
(* The allocator driven through its public allocate_register directly: the *)
(* caller binds a variable to a register of its choice for the rest of the *)
(* variable's live interval.                                               *)
(***************************************************************************)
\* one more direct call is issued, and the tables become those of st
BecomesDirect(st) ==
    /\ ops < MaxDirectOps
    /\ ops' = ops + 1
    /\ assignment' = IF st.err = "none" THEN st.assignment ELSE [v \in Ids |-> <<>>]
    /\ spilled' = IF st.err = "none" THEN st.spilled ELSE [v \in Ids |-> <<>>]
    /\ active' = IF st.err = "none" THEN st.active ELSE {}
    /\ err' = st.err

AllocateRegister(var_id, reg) ==
    /\ err = "none"
    /\ HasKey(live_intervals, var_id)
    /\ alive_for_reading(Get(live_intervals, var_id), pos)
    /\ BecomesDirect(allocate_register(AllocState, var_id, reg, pos,
                                       <<pos, LiveEnd(var_id)>>))
    /\ last' = Did("allocate_register", var_id, reg)
    /\ UNCHANGED <<fnVars, scanVars, exprVars, var_table, live_intervals, var_collapse,
                   scratch_register_counter, pos>>

AllocateMemory(var_id) ==
    /\ err = "none"
    /\ BecomesDirect(spill_var(AllocState, var_id, pos))
    /\ last' = Did("request_allocate_memory", var_id, NoReg)
    /\ UNCHANGED <<fnVars, scanVars, exprVars, var_table, live_intervals, var_collapse,
                   scratch_register_counter, pos>>

InitDirect == InitAlloc /\ var_table = [v \in Vars |-> "Local"]

NextDirect ==
    \/ Advance
    \/ \E v \in Vars : \E r \in Range(VARIABLE_REGISTERS) : AllocateRegister(v, r)
    \/ \E v \in Vars : AllocateMemory(v)

SpecDirect == InitDirect /\ [][NextDirect]_vars

\* a new binding overlaps an earlier one when it covers a position at which
\* the earlier one occupies its register (up to, not including, its end)
Overlap(prior, new) ==
    \E p \in Positions : is_inside_write(prior, p) /\ alive_for_reading(new, p)

\* the interval a new binding of var_id at the current position gets: the tail
\* of its latest spill fragment, or the interval handed in
NewBinding(var_id) ==
    IF spilled[var_id] # <<>> THEN SplitTail(Last(spilled[var_id]), pos)
    ELSE <<pos, LiveEnd(var_id)>>

\* C14: allocate_register for a variable that has assignment history raises
\* an internal error when the new binding overlaps one of the variable's
\* earlier assignment intervals, and succeeds when it overlaps none.
OverlapRejected ==
    [][\A v \in Vars :
          (/\ assignment[v] # <<>>
           /\ ops' = ops + 1
           /\ last'.op = "allocate_register" /\ last'.var = v)
          => (err' = "internal" <=> \E a \in Entries(v) : Overlap(a.iv, NewBinding(v)))]_vars

\* C14 as the code has it: allocate_register for a variable that has
\* assignment history raises an internal error when the position lies inside
\* one of the variable's earlier assignment intervals (start <= pos < end) or
\* the variable has no spill record, and succeeds otherwise, binding the tail
\* of the latest spill fragment.
OverlapOrUnspilledRejected ==
    [][\A v \in Vars :
          (/\ assignment[v] # <<>>
           /\ ops' = ops + 1
           /\ last'.op = "allocate_register" /\ last'.var = v)
          => /\ err' = "internal" <=>
                  (\/ spilled[v] = <<>>
                   \/ \E a \in Entries(v) : is_inside_write(a.iv, pos))
             /\ err' = "none" =>
                  /\ assignment'[v] = Append(assignment[v],
                                             [iv |-> NewBinding(v), reg |-> last'.reg])
                  /\ <<v, last'.reg>> \in active']_vars

\* a variable that was spilled has been bound again at a later position
ReboundAfterSpill ==
    /\ last.op = "allocate_register" /\ err = "none"
    /\ Len(assignment[last.var]) = 2
    /\ spilled[last.var] # <<>>
    /\ assignment[last.var][2].iv[1] > assignment[last.var][1].iv[1]

\* C15: request_allocate_memory for a variable that is not bound in the Active
\* map, and force_free_register for a register that is not, raise an internal
\* error and record no spill.
SpillRequiresActive ==
    [][/\ \A v \in Vars :
            (/\ ~ContainsLeft(active, v)
             /\ ops' = ops + 1
             /\ last'.op = "request_allocate_memory" /\ last'.var = v)
            => err' = "internal"
       /\ \A r \in Regs :
            (/\ ~ContainsRight(active, r)
             /\ ops' = ops + 1
             /\ last'.op = "force_free_register" /\ last'.reg = r)
            => err' = "internal"]_vars

\* the latest assignment entry of var_id is not valid for reading at p, and
\* the variable has no spill record or p lies outside its latest spill fragment
CannotRevive(var_id, p) ==
    /\ assignment[var_id] # <<>>
    /\ ~alive_for_reading(Last(assignment[var_id]).iv, p)
    /\ \/ spilled[var_id] = <<>>
       \/ ~alive_for_reading(Last(spilled[var_id]), p)

\* C16: a read or write request for a variable that cannot be revived at the
\* current position raises an internal error, "The variable is not spilled"
\* or "Reading variable outside live interval", and returns no register.
ReviveErrors ==
    [][\A v \in Vars :
          (/\ CannotRevive(v, pos)
           /\ ops' = ops + 1
           /\ last'.op \in {"request_read_allocation", "request_write_allocation"}
           /\ last'.var = v)
          => /\ err' = "internal" /\ last'.reg = NoReg
             /\ last'.msg = IF spilled[v] = <<>> THEN "The variable is not spilled"
                            ELSE "Reading variable outside live interval"
             /\ assignment'[v] = <<>> /\ active' = {}]_vars

\* a write request was refused for a variable whose latest spill fragment
\* ends before the position of the request
WriteRefused ==
    /\ last.op = "request_write_allocation" /\ err = "internal"
    /\ last.msg = "Reading variable outside live interval"

\* the active variables find-or-spill may evict for a request on the allowed
\* registers: neither FixedTemp nor Ret, and holding an allowed register
Eligible(allowed_regs) ==
    {q \in active : /\ q[1] \in Vars
                    /\ var_table[q[1]] \notin {"FixedTemp", "Ret"}
                    /\ q[2] \in Range(allowed_regs)}

\* C17: a first write request for a variable, issued when every register of
\* the variable pool is in the Active map, spills an eligible active variable
\* and returns its register when there is one, and raises the internal error
\* "No register to spill!" exactly when there is none, whether or not scratch
\* ids are in the Active map.
ExhaustedPool ==
    [][\A v \in Vars :
          (/\ assignment[v] = <<>> /\ spilled[v] = <<>>
           /\ ~ContainsLeft(active, v)
           /\ \A r \in Range(VARIABLE_REGISTERS) : ContainsRight(active, r)
           /\ ops' = ops + 1
           /\ last'.op = "request_write_allocation" /\ last'.var = v)
          => IF Eligible(VARIABLE_REGISTERS) # {}
             THEN /\ err' = "none"
                  /\ <<last'.victim, last'.reg>> \in Eligible(VARIABLE_REGISTERS)
                  /\ <<v, last'.reg>> \in active'
                  /\ Len(spilled'[last'.victim]) = Len(spilled[last'.victim]) + 1
             ELSE /\ err' = "internal"
                  /\ last'.msg = "No register to spill! This is an internal error"]_vars

(***************************************************************************)
(* The two places where a function's unsupported constructs are met: the   *)
(* interval scan of its blocks, and the binding of its parameters and      *)
(* return value on a fresh allocator.                                      *)
(***************************************************************************)
NextFeatures ==
    \/ NextScan
    \/ pc = "scanned" /\ SetParamAndRet

SpecFeatures == (InitScan \/ InitAlloc) /\ [][NextFeatures]_vars

\* the index of the first Global operand of vals, 0 if there is none
FirstGlobal(vals) ==
    LET G == {i \in 1 .. Len(vals) : vals[i] = Global}
    IN  IF G = {} THEN 0 ELSE CHOOSE i \in G : \A j \in G : i <= j

\* the scanner state when the first Global operand of the instruction
\* tgt = op(vals) at p is read
BeforeGlobal(tgt, vals, p) ==
    EndValues(var_interval_start(ScanState, tgt, p),
              SubSeq(vals, 1, FirstGlobal(vals) - 1), p)

AssignmentOrdered ==
    \A v \in Ids : \A i, j \in 1 .. Len(assignment[v]) :
        i < j =>
            /\ assignment[v][i].iv[1] <= assignment[v][j].iv[1]
            /\ ~\E p \in 0 .. MaxPos :
                  /\ alive_for_reading(assignment[v][i].iv, p)
                  /\ alive_for_reading(assignment[v][j].iv, p)

\* the interval declared for an id: the live interval of a variable, the
\* point interval of a scratch id
Declared(id) ==
    IF id \in Vars /\ HasKey(live_intervals, id) THEN Get(live_intervals, id)
    ELSE assignment[id][1].iv

\* the latest assignment entry of id was cut by a spill that is still its
\* latest spill fragment
LatestSpilled(id) ==
    /\ spilled[id] # <<>>
    /\ Last(spilled[id])[1] = Last(assignment[id]).iv[2]

\* id holds reg at p: its latest entry names reg and is not spilled, and its
\* declared interval is valid for reading at p
Holds(id, reg, p) ==
    /\ assignment[id] # <<>>
    /\ Last(assignment[id]).reg = reg
    /\ ~LatestSpilled(id)
    /\ alive_for_reading(Declared(id), p)

PublicOps ==
    {"request_read_allocation", "request_write_allocation", "request_scratch_register",
     "request_allocate_memory", "force_free_register", "set_param_and_ret_registers"}

\* C20: after a public operation at pos that raised no error, a register is
\* in the Active map exactly when some id holds it at pos, and the map binds
\* every id to one register and every register to one id.
ActiveSetInvariant ==
    (last.op \in PublicOps /\ err = "none") =>
        /\ \A r \in Regs : ContainsRight(active, r) <=> \E id \in Ids : Holds(id, r, pos)
        /\ \A q1, q2 \in active : (q1[1] = q2[1] \/ q1[2] = q2[2]) => q1 = q2

(***************************************************************************)
(* Properties of the victim choice, of the alias table, of the scan of a   *)
(* whole function and of the effect of a spill.                            *)
(***************************************************************************)
\* the pool a request hands to find_allocate_or_spill
AllowedFor(op) ==
    IF op = "request_scratch_register" THEN SCRATCH_VARIABLE_ALLOWED_REGISTERS
    ELSE VARIABLE_REGISTERS

\* C21: when find-or-spill evicts at position pos, the victim is an eligible
\* active variable holding an allowed register whose live-interval length is
\* maximal among the eligible ones, and it is spilled at pos: its latest
\* register interval ends at pos, its spill history gains one entry and it
\* leaves the Active map if it was not itself bound again.
VictimChoice ==
    [][(ops' = ops + 1 /\ last'.victim # NoVar)
          => LET w == last'.victim
                 E == Eligible(AllowedFor(last'.op))
             IN  /\ <<w, last'.reg>> \in E
                 /\ \A q \in E : SpillKey(q[1]) <= SpillKey(w)
                 /\ Last(assignment'[w]).iv[2] = pos
                 /\ Last(assignment'[w]).iv[1] = Last(assignment[w]).iv[1]
                 /\ Len(spilled'[w]) = Len(spilled[w]) + 1
                 /\ Last(spilled'[w])[1] = pos
                 /\ ~ContainsLeft(active', w)]_vars

\* a victim was chosen while a shorter-lived eligible variable kept its register
LongerLivedEvicted ==
    /\ last.victim # NoVar
    /\ err = "none"
    /\ \E q \in Eligible(AllowedFor(last.op)) :
          /\ q[1] # last.var
          /\ SpillKey(q[1]) < SpillKey(last.victim)

(***************************************************************************)
(* find_allocate_or_spill is public: here it is called directly with the   *)
(* variable pool, at positions inside the variable's live interval, in     *)
(* between explicit spills.                                                *)
(***************************************************************************)
FindAllocateOrSpill(var_id) ==
    /\ err = "none"
    /\ HasKey(live_intervals, var_id)
    /\ alive_for_reading(Get(live_intervals, var_id), pos)
    /\ \E o \in find_allocate_or_spill(AllocState, var_id, VARIABLE_REGISTERS,
                                       <<pos, LiveEnd(var_id)>>, pos) :
          /\ BecomesDirect(o.st)
          /\ last' = Returned("find_allocate_or_spill", var_id,
                              [st |-> o.st, reg |-> o.reg, victim |-> o.victim,
                               revived |-> FALSE])
    /\ UNCHANGED <<fnVars, scanVars, exprVars, var_table, live_intervals, var_collapse,
                   scratch_register_counter, pos>>

NextFind ==
    \/ Advance
    \/ \E v \in Vars : FindAllocateOrSpill(v)
    \/ \E v \in Vars : AllocateMemory(v)

SpecFind == InitDirect /\ [][NextFind]_vars

\* the positions in the pool of its registers that are not in the Active map
FreeIn(allowed_regs) ==
    {i \in 1 .. Len(allowed_regs) : \A q \in active : q[2] # allowed_regs[i]}

\* C22: find-or-spill spills only when necessary: for a variable that is
\* already active it returns the variable's register and changes no table;
\* otherwise, when a register of the allowed subset is not in the Active map,
\* it binds the variable to the first such register in the declared order of
\* the pool and records no spill.
SpillOnlyWhenNecessary ==
    [][\A v \in Vars :
          (ops' = ops + 1 /\ last'.op = "find_allocate_or_spill" /\ last'.var = v)
          => IF ContainsLeft(active, v)
             THEN /\ err' = "none"
                  /\ <<v, last'.reg>> \in active
                  /\ assignment' = assignment /\ spilled' = spilled /\ active' = active
             ELSE FreeIn(VARIABLE_REGISTERS) # {}
                  => /\ err' = "none"
                     /\ \E i \in FreeIn(VARIABLE_REGISTERS) :
                           /\ \A j \in FreeIn(VARIABLE_REGISTERS) : i <= j
                           /\ last'.reg = VARIABLE_REGISTERS[i]
                     /\ active' = active \cup {<<v, last'.reg>>}
                     /\ last'.victim = NoVar
                     /\ \A w \in Ids : Len(spilled'[w]) = Len(spilled[w])]_vars

\* three calls left two variables bound, each once, with no spill: one call
\* found its variable active, and the second binding took the second register
SecondRegisterClaimed ==
    /\ ops = 3 /\ err = "none"
    /\ last.op = "find_allocate_or_spill"
    /\ \A w \in Ids : spilled[w] = <<>>
    /\ \E a, b \in Vars :
          /\ a # b
          /\ active = {<<a, VARIABLE_REGISTERS[1]>>, <<b, VARIABLE_REGISTERS[2]>>}
          /\ Len(assignment[a]) = 1 /\ Len(assignment[b]) = 1

\* C23: after any sequence of phi merges the collapse table holds no
\* self-entry and no cycle, and no alias lookup fails to terminate.
AliasLookupTerminates ==
    /\ \A v \in Vars : var_collapse[v] # v
    /\ ChainsEnd(var_collapse)
    /\ err # "overflow"

(***************************************************************************)
(* The alias lookup on the tables the phi instructions of a block build.   *)
(***************************************************************************)
\* a lookup of the canonical id of a variable, as every access to the
\* interval table starts with
GetCollapsedVar(var) ==
    /\ pc = "block" /\ err = "none"
    /\ ops < MaxOps
    /\ LET g == get_collapsed_var(ScanState, var)
       IN  /\ Scanned(g.st)
           /\ last' = [op |-> "get_collapsed_var", var |-> var,
                       was |-> var_collapse[var], res |-> g.res]
    /\ ops' = ops + 1
    /\ UNCHANGED <<bb, cycle_count, input_count, bfs_q, vis, bb_arrangement, bb_start_pos,
                   pc, offset, inst_idx, reads, exprVars, var_table, assignment, spilled, active,
                   scratch_register_counter, pos>>

NextAlias ==
    \/ \E uses \in VarOrders : BlockStart(uses)
    \/ \E tgt \in VarRefs : \E vals \in PhiLists : ScanPhi(tgt, vals)
    \/ \E v \in Vars : GetCollapsedVar(v)

SpecAlias == InitScan /\ [][NextAlias]_vars

\* C24: a lookup that returns gives an id that has no entry in the collapse
\* table, the variable itself when it has no entry, and the entries the
\* lookup rewrites leave every variable resolving to the id it resolved to.
LookupResolvesToRoot ==
    [][\A v \in Vars :
          (/\ ops' = ops + 1 /\ err' = "none"
           /\ last'.op = "get_collapsed_var" /\ last'.var = v)
          => /\ var_collapse'[last'.res] = NoVar
             /\ var_collapse[v] = NoVar => last'.res = v
             /\ last'.res = Root(var_collapse, v, NumVars)
             /\ \A w \in Vars :
                   Root(var_collapse', w, NumVars) = Root(var_collapse, w, NumVars)]_vars

\* a lookup followed a chain of two entries and rewrote the first of them
ChainCompressed ==
    /\ last.op = "get_collapsed_var" /\ err = "none"
    /\ last.was # NoVar
    /\ last.was # last.res
    /\ var_collapse[last.var] = last.res
    /\ var_collapse[last.was] = last.res

(***************************************************************************)
(* The scan of a function whose blocks follow one another: each block      *)
(* jumps to the next, or returns.  What is read of each block is kept in   *)
(* bb: its uses_var, its start, and when it is left the position of its    *)
(* terminator and the uses_var of its successor.                           *)
(***************************************************************************)
MaxCrossBlocks == 2

MaxCrossOps == 2

CrossBlockStart(uses) ==
    /\ pc = "laid_out" /\ err = "none"
    /\ Len(bb_arrangement) < MaxCrossBlocks
    /\ bb # <<>> => Range(uses) = Range(Last(bb).bb_next_vars)
    /\ bb_arrangement' = Append(bb_arrangement, Len(bb_arrangement))
    /\ bb_start_pos' = Append(bb_start_pos, <<Len(bb_arrangement), offset>>)
    /\ bb' = Append(bb, [uses_var |-> uses, start |-> offset, self_end |-> offset,
                         bb_next_vars |-> <<>>])
    /\ Scanned(StartEach(ScanState, uses, offset))
    /\ inst_idx' = 0
    /\ pc' = "block"
    /\ last' = [op |-> "uses_var", tgt |-> Global, vals |-> uses, pos |-> offset]
    /\ UNCHANGED <<cycle_count, input_count, bfs_q, vis, offset, reads, exprVars, var_table,
                   assignment, spilled, active, scratch_register_counter, pos, ops>>

CrossBlockEnd(cond, bb_next_vars) ==
    /\ pc = "block" /\ err = "none"
    /\ LET self_end == offset + inst_idx
           st == EndEach(EndValues(ScanState, cond, self_end), bb_next_vars, self_end + 1)
       IN  /\ Scanned([st EXCEPT !.intervals = SortByStart(@)])
           /\ reads' = reads \cup ReadsOf(cond, self_end)
           /\ bb' = SetLast(bb, [Last(bb) EXCEPT !.self_end = self_end,
                                                 !.bb_next_vars = bb_next_vars])
           /\ last' = [op |-> "end", tgt |-> Global, vals |-> cond, pos |-> self_end]
    /\ offset' = NextStart(offset, inst_idx)
    /\ pc' = "laid_out"
    /\ UNCHANGED <<cycle_count, input_count, bfs_q, vis, bb_arrangement, bb_start_pos,
                   inst_idx, exprVars, var_table, assignment, spilled, active, scratch_register_counter,
                   pos, ops>>

NextCross ==
    \/ \E uses \in VarOrders : CrossBlockStart(uses)
    \/ ops < MaxCrossOps /\ \E tgt \in VarRefs : \E vals \in ValueLists : ScanRead(tgt, vals)
    \/ ops < MaxCrossOps /\ \E tgt \in VarRefs : \E vals \in PhiLists : ScanPhi(tgt, vals)
    \/ \E cond \in CondLists :
          \E bb_next_vars \in VarOrders : CrossBlockEnd(cond, bb_next_vars)
    \/ ScanReturn

SpecCross == InitScan /\ [][NextCross]_vars

\* the interval stored under the canonical id of var contains p
Covers(var, p) ==
    /\ HasKey(live_intervals, Canonical(var))
    /\ alive_for_reading(Get(live_intervals, Canonical(var)), p)

\* C25: once all blocks are scanned (and the collapse table holds no cycle),
\* for every arranged block the interval of each variable of its uses_var
\* contains the start of the block, and the interval of each variable in the
\* uses_var of its successors contains the position after its terminator.
CrossBlockLiveness ==
    (pc = "scanned" /\ err = "none" /\ ChainsEnd(var_collapse)) =>
        \A i \in 1 .. Len(bb) :
            /\ \A x \in Range(bb[i].uses_var) : Covers(x, bb[i].start)
            /\ \A x \in Range(bb[i].bb_next_vars) : Covers(x, bb[i].self_end + 1)

\* C26: once all blocks of a function are scanned, the live-interval table
\* lists its intervals in non-decreasing order of start position.
IntervalTableSorted ==
    (pc = "scanned" /\ err = "none") =>
        \A i, j \in 1 .. Len(live_intervals) :
            i < j => live_intervals[i][2][1] <= live_intervals[j][2][1]

\* two blocks are scanned, a phi has merged two variables, and the table
\* holds intervals with different starts
SortedAfterMerge ==
    /\ pc = "scanned" /\ err = "none"
    /\ Len(bb) = 2
    /\ \E v \in Vars : var_collapse[v] # NoVar
    /\ Len(live_intervals) >= 2
    /\ live_intervals[1][2][1] < live_intervals[Len(live_intervals)][2][1]

\* C27: spill_var(var, pos) on an active variable cuts the variable's latest
\* register interval to end at pos, appends the tail cut off as the last
\* entry of its spill history, removes the variable and its register from the
\* Active map, and leaves the assignment entries, the spill entries and the
\* Active bindings of every other variable as they were.
SpillEffect ==
    [][\A v \in Vars :
          (/\ ops' = ops + 1
           /\ last'.op = "request_allocate_memory" /\ last'.var = v
           /\ ContainsLeft(active, v))
          => LET lst == Last(assignment[v])
             IN  /\ err' = "none"
                 /\ Len(assignment'[v]) = Len(assignment[v])
                 /\ Front(assignment'[v]) = Front(assignment[v])
                 /\ Last(assignment'[v]) = [iv |-> <<lst.iv[1], pos>>, reg |-> lst.reg]
                 /\ spilled'[v] = Append(spilled[v], <<pos, lst.iv[2]>>)
                 /\ active' = active \ {<<v, GetByLeft(active, v)>>}
                 /\ ~ContainsRight(active', GetByLeft(active, v))
                 /\ \A w \in Ids \ {v} :
                       assignment'[w] = assignment[w] /\ spilled'[w] = spilled[w]]_vars

\* a variable was spilled inside its register interval while another one
\* stayed bound
SpilledBesideActive ==
    /\ last.op = "request_allocate_memory" /\ err = "none"
    /\ spilled[last.var] # <<>>
    /\ Last(spilled[last.var])[1] = last.pos
    /\ Last(spilled[last.var])[1] < Last(spilled[last.var])[2]
    /\ Last(assignment[last.var]).iv = <<0, last.pos>>
    /\ last.pos > 0
    /\ ~ContainsLeft(active, last.var)
    /\ active # {}

\* C28: scanning an instruction whose target or operand is a Global reference
\* creates and changes no entry of the interval table or the collapse table
\* for that reference, and the scan goes on: the tables are those the Local
\* references of the instruction alone produce.
GlobalBypass ==
    [][\A tgt \in VarRefs : \A vals \in ValueLists :
          (/\ pc = "block" /\ ops' = ops + 1
           /\ last' = [op |-> "Read", tgt |-> tgt, vals |-> vals, pos |-> offset + inst_idx]
           /\ (tgt = Global \/ Global \in Range(vals)))
          => LET p == offset + inst_idx
                 st == EndEach(var_interval_start(ScanState, tgt, p), LocalIds(vals), p)
             IN  /\ st.err = "none" => err' = "none"
                 /\ err' = "none" =>
                       /\ live_intervals' = st.intervals
                       /\ var_collapse' = st.var_collapse]_vars

\* C29: a read or write request that revives a spilled variable at pos
\* appends exactly one entry to the variable's assignment history, and the
\* interval of that entry is the tail revive cut off the spill interval: it
\* starts at pos and ends where the spill interval ended.
OneReviveOneBinding ==
    [][\A v \in Vars :
          (/\ ops' = ops + 1 /\ err' = "none"
           /\ last'.op \in {"request_read_allocation", "request_write_allocation"}
           /\ last'.var = v /\ last'.revived)
          => /\ Len(assignment'[v]) = Len(assignment[v]) + 1
             /\ SubSeq(assignment'[v], 1, Len(assignment[v])) = assignment[v]
             /\ Last(assignment'[v]).iv = <<pos, Last(spilled[v])[2]>>]_vars

\* C30: once the blocks of a function are arranged, the arrangement is not
\* empty and its first element is block 0, also when block 0 has incoming
\* edges.
EntryBlockFirst ==
    pc \in {"arranged", "laid_out"} =>
        bb_arrangement # <<>> /\ bb_arrangement[1] = 0

(***************************************************************************)
(* The linearizer left to run: a step is taken whenever one is possible.   *)
(***************************************************************************)
SpecLinLive == InitLin /\ [][NextLin]_vars /\ WF_vars(NextLin)

\* C31: on every control-flow graph, loops and self-loops included, the
\* breadth-first loop of arrange_basic_blocks comes to its end, and no block
\* is arranged, and so has its successors enqueued, more than once.
LinearizerTerminates ==
    /\ [](\A i, j \in DOMAIN bb_arrangement : i # j => bb_arrangement[i] # bb_arrangement[j])
    /\ (pc = "arrange") ~> (pc = "arranged")

\* the loop has ended on a graph in which block 0 jumps to itself or lies on
\* a loop through all the blocks
LoopArranged ==
    /\ pc = "arranged"
    /\ \/ 0 \in Range(next_ids(bb[0].end))
       \/ Len(bb_arrangement) = NumBlocks /\ jump_in(bb, 0) # {}

(***************************************************************************)
(* c0::parser: the token stream and the expression parser.  A token is     *)
(* the name of its TokenVariant, an identifier token is its name; an       *)
(* expression part is "Int", "Var", "FnCall" or the name of its OpVar.     *)
(***************************************************************************)

MaxTokens == 5

MaxStack == 4

Idents == {"x", "f"}

TokenAlphabet ==
    {"IntegerLiteral", "Minus", "LParenthesis", "RParenthesis", "Semicolon"} \cup Idents

RECURSIVE TokenStreams(_)
TokenStreams(n) ==
    IF n = 0 THEN {<<>>}
    ELSE LET S == TokenStreams(n - 1)
         IN  S \cup {Append(s, t) : s \in {u \in S : Len(u) = n - 1}, t \in TokenAlphabet}

\* Scope::find_definition: x is a variable, f a function, nothing else is defined
find_definition(ident) ==
    CASE ident = "x" -> "Variable"
      [] ident = "f" -> "Function"
      [] OTHER -> "None"

\* PeekingNext::peeking_next of a Peekable with the predicate of try_consume,
\* variant_eq with token: the next element is taken off the stream when the
\* predicate accepts it, and nothing is taken otherwise
peeking_next(lx, token) ==
    IF lx # <<>> /\ Head(lx) = token
    THEN [lexer |-> Tail(lx), value |-> Head(lx)]
    ELSE [lexer |-> lx, value |-> "None"]

\* Iterator::next of the stream
lexer_next(lx) == IF lx = <<>> THEN lx ELSE Tail(lx)

\* TokenIterator::try_consume
try_consume(lx, token) ==
    LET p == peeking_next(lx, token)
    IN  IF p.value # "None"
        THEN [lexer |-> lexer_next(p.lexer), value |-> TRUE]
        ELSE [lexer |-> lx, value |-> FALSE]

\* OptionalOperator::is_op of a TokenVariant
is_op(var) ==
    var \in {"Minus", "Plus", "Multiply", "Divide", "Not", "Increase", "Decrease",
             "Equals", "NotEquals", "LessThan", "GreaterThan", "LessOrEqualThan",
             "GreaterOrEqualThan", "Assign", "Comma", "LParenthesis", "RParenthesis"}

\* IntoOperator::into_op of a TokenVariant
into_op(var, unary) ==
    IF unary
    THEN CASE var = "Minus" -> "Neg"
           [] var = "Multiply" -> "Der"
           [] var = "BinaryAnd" -> "Ref"
           [] var = "Increase" -> "Inb"
           [] var = "Decrease" -> "Deb"
           [] OTHER -> "None"
    ELSE CASE var = "Minus" -> "Sub"
           [] var = "Plus" -> "Add"
           [] var = "Multiply" -> "Mul"
           [] var = "Divide" -> "Div"
           [] var = "Not" -> "Inv"
           [] var = "BinaryAnd" -> "Ban"
           [] var = "BinaryOr" -> "Bor"
           [] var = "And" -> "And"
           [] var = "Or" -> "Or"
           [] var = "Xor" -> "Xor"
           [] var = "Increase" -> "Ina"
           [] var = "Decrease" -> "Dea"
           [] var = "Equals" -> "Eq"
           [] var = "NotEquals" -> "Neq"
           [] var = "LessThan" -> "Lt"
           [] var = "GreaterThan" -> "Gt"
           [] var = "LessOrEqualThan" -> "Lte"
           [] var = "GreaterOrEqualThan" -> "Gte"
           [] var = "Assign" -> "_Asn"
           [] var = "Comma" -> "_Com"
           [] var = "LParenthesis" -> "_Lpr"
           [] var = "RParenthesis" -> "_Rpr"
           [] OTHER -> "None"

\* ExprPart::into_op: the operator of an Op part, None for every other part
part_into_op(part) == IF part \in {"Int", "Str", "Var", "FnCall"} THEN "None" ELSE part

\* Operator::priority of an OpVar, and of the FnCall part
priority(op) ==
    CASE op = "_Dum" -> 0 - 50
      [] op \in {"_Lpr", "_Rpr"} -> 0 - 10
      [] op = "FnCall" -> 0 - 5
      [] op = "_Com" -> 0 - 4
      [] op = "_Asn" -> 0
      [] op \in {"Eq", "Neq"} -> 2
      [] op \in {"Gt", "Lt", "Gte", "Lte"} -> 3
      [] op = "Or" -> 4
      [] op = "And" -> 5
      [] op = "Bor" -> 6
      [] op = "Xor" -> 7
      [] op = "Ban" -> 8
      [] op \in {"Add", "Sub"} -> 15
      [] op \in {"Mul", "Div"} -> 20
      [] OTHER -> 40

\* Operator::is_right_associative of an OpVar, and of the FnCall part
is_right_associative(op) == op \in {"Neg", "Inv", "Bin", "Ref", "Der", "_Asn", "FnCall"}

\* the fields of the ExprParser as one record
ParserState ==
    [lexer |-> lexer, lexer_ended |-> lexer_ended, suggest_unary |-> suggest_unary,
     err_fuse |-> err_fuse, err |-> parse_err, op_stack |-> op_stack]

Stop(st, x) == [st |-> st, stop |-> TRUE, value |-> x]

Continue(st) == [st |-> st, stop |-> FALSE, value |-> "None"]

\* Vec::pop as the value of a Stop
StopPop(st) ==
    Stop([st EXCEPT !.op_stack = SubSeq(@, 1, Len(@) - 1)], st.op_stack[Len(st.op_stack)])

\* ExprParser::meltdown
meltdown(st, e) == Stop([st EXCEPT !.err = e, !.err_fuse = TRUE], "None")

\* ExprParser::end_lexer
end_lexer(st) == Continue([st EXCEPT !.lexer_ended = TRUE])

\* ExprParser::is_stack_top_higher_than
is_stack_top_higher_than(st, op) ==
    /\ st.op_stack # <<>>
    /\ LET stack_op == st.op_stack[Len(st.op_stack)]
       IN  IF is_right_associative(op)
           THEN priority(stack_op) > priority(op)
           ELSE priority(stack_op) >= priority(op)

\* ExprParser::parse_op: the token is looked at and stays in the stream,
\* except when no operator corresponds to it
parse_op(st) ==
    LET token == Head(st.lexer)
        op == into_op(token, st.suggest_unary)
        top == IF st.op_stack = <<>> THEN "_Dum"
               ELSE LET o == part_into_op(st.op_stack[Len(st.op_stack)])
                    IN  IF o = "None" THEN "_Dum" ELSE o
    IN  IF op # "None"
        THEN IF is_stack_top_higher_than(st, op)
             THEN StopPop(st)
             ELSE IF op = "_Rpr"
                  THEN IF top = "_Lpr"
                       THEN Continue([st EXCEPT !.op_stack = SubSeq(@, 1, Len(@) - 1),
                                                !.suggest_unary = FALSE])
                       ELSE meltdown(st, "UnbalancedParenthesisExpectL")
                  ELSE IF op = "_Com"
                  THEN Continue([st EXCEPT !.suggest_unary = TRUE])
                  ELSE Continue([st EXCEPT !.op_stack = Append(@, op),
                                           !.suggest_unary = TRUE])
        ELSE meltdown([st EXCEPT !.lexer = lexer_next(@)], "UnexpectedToken")

\* ExprParser::parse_ident, the identifier already taken off the stream
parse_ident(st, ident) ==
    LET def == find_definition(ident)
        c == try_consume(st.lexer, "LParenthesis")
        s1 == [st EXCEPT !.lexer = c.lexer]
    IN  IF def = "None"
        THEN meltdown(st, "CannotFindIdent")
        ELSE IF c.value
        THEN IF def = "Function"
             THEN Continue([s1 EXCEPT !.op_stack = Append(Append(@, "_Lpr"), "FnCall"),
                                      !.suggest_unary = TRUE])
             ELSE meltdown(s1, "CannotFindFn")
        ELSE IF def = "Variable"
             THEN Stop([s1 EXCEPT !.suggest_unary = FALSE], "Var")
             ELSE meltdown(s1, "CannotFindVar")

\* ExprParser::parse_val
parse_val(st) ==
    LET t == Head(st.lexer)
        s1 == [st EXCEPT !.lexer = lexer_next(@)]
    IN  CASE t = "IntegerLiteral" -> Stop([s1 EXCEPT !.suggest_unary = FALSE], "Int")
          [] t = "StringLiteral" -> Stop([s1 EXCEPT !.suggest_unary = FALSE], "Str")
          [] t \in Idents -> parse_ident(s1, t)
          [] OTHER -> meltdown(s1, "UnexpectedToken")

\* the closure that _next hands to loop_while: one turn of the loop
next_closure(st) ==
    IF st.lexer_ended
    THEN IF st.op_stack = <<>> THEN Stop(st, "None") ELSE StopPop(st)
    ELSE IF st.lexer = <<>> \/ Head(st.lexer) \in {"EndOfFile", "Semicolon"}
         THEN end_lexer(st)
         ELSE IF is_op(Head(st.lexer)) THEN parse_op(st) ELSE parse_val(st)

\* ExprParser::new over a token stream
InitExpr ==
    /\ bb = <<>>
    /\ bb_arrangement = <<>>
    /\ pc = "new"
    /\ NoLocals
    /\ bb_start_pos = <<>>
    /\ offset = 0
    /\ inst_idx = 0
    /\ reads = {}
    /\ var_table = [v \in Vars |-> "Local"]
    /\ live_intervals = <<>>
    /\ var_collapse = [v \in Vars |-> NoVar]
    /\ assignment = [v \in Ids |-> <<>>]
    /\ spilled = [v \in Ids |-> <<>>]
    /\ active = {}
    /\ scratch_register_counter = UsizeMax
    /\ pos = 0
    /\ err = "none"
    /\ ops = 0
    /\ last = NoOp
    /\ lexer \in TokenStreams(MaxTokens)
    /\ lexer_ended = FALSE
    /\ suggest_unary = TRUE
    /\ err_fuse = FALSE
    /\ parse_err = "none"
    /\ op_stack = <<>>
    /\ in_call = FALSE
    /\ ret = "none"

\* ExprParser::next is called: None at once when the fuse is blown, the loop
\* otherwise
CallNext ==
    /\ ~in_call
    /\ IF err_fuse
       THEN ret' = "None" /\ in_call' = FALSE
       ELSE ret' = ret /\ in_call' = TRUE
    /\ UNCHANGED <<allocVars, fnVars, scanVars, lexer, lexer_ended, suggest_unary,
                   err_fuse, parse_err, op_stack>>

\* one turn of loop_while inside the call; the call returns on a Stop
LoopTurn ==
    /\ in_call
    /\ LET r == next_closure(ParserState)
       IN  /\ Len(r.st.op_stack) <= MaxStack
           /\ lexer' = r.st.lexer
           /\ lexer_ended' = r.st.lexer_ended
           /\ suggest_unary' = r.st.suggest_unary
           /\ err_fuse' = r.st.err_fuse
           /\ parse_err' = r.st.err
           /\ op_stack' = r.st.op_stack
           /\ in_call' = ~r.stop
           /\ ret' = IF r.stop THEN r.value ELSE ret
    /\ UNCHANGED <<allocVars, fnVars, scanVars>>

NextExpr == CallNext \/ LoopTurn

SpecExpr == InitExpr /\ [][NextExpr]_vars

SpecExprLive == InitExpr /\ [][NextExpr]_vars /\ WF_vars(NextExpr)

\* C32: each call of ExprParser::next returns after finitely many turns of
\* its loop, and no turn makes the operator stack longer without taking a
\* token off the stream.
ExprParserTerminates ==
    /\ [][Len(op_stack') > Len(op_stack) => Len(lexer') < Len(lexer)]_vars
    /\ in_call ~> ~in_call

\* C33: when the next token is a right parenthesis that stands for _Rpr and
\* the left-parenthesis marker is on top of the operator stack, the turn takes
\* the token off the stream, pops the marker, returns nothing and raises no
\* error; UnbalancedParenthesisExpectL is raised only while no marker is on
\* the stack.
ParenthesisDiscarded ==
    [][/\ ( /\ in_call /\ ~lexer_ended /\ ~suggest_unary
            /\ lexer # <<>> /\ Head(lexer) = "RParenthesis"
            /\ op_stack # <<>> /\ op_stack[Len(op_stack)] = "_Lpr" )
          => /\ lexer' = Tail(lexer)
             /\ op_stack' = SubSeq(op_stack, 1, Len(op_stack) - 1)
             /\ in_call'
             /\ ret' = ret
             /\ parse_err' = "none"
       /\ ( parse_err' = "UnbalancedParenthesisExpectL" /\ parse_err = "none" )
          => \A i \in DOMAIN op_stack : op_stack[i] # "_Lpr"]_vars

\* a caller asks the stream for a token of one variant, as parse_ident and
\* parse_block_no_scope do
TryConsume(token) ==
    /\ ~in_call
    /\ LET c == try_consume(lexer, token)
       IN  /\ lexer' = c.lexer
           /\ ret' = IF c.value THEN "true" ELSE "false"
    /\ UNCHANGED <<allocVars, fnVars, scanVars, lexer_ended, suggest_unary, err_fuse,
                   parse_err, op_stack, in_call>>

NextTokens == \E token \in TokenAlphabet : TryConsume(token)

SpecTokens == InitExpr /\ [][NextTokens]_vars

\* C34: a call of try_consume takes exactly one token off the stream and
\* returns true when the next token has the variant asked for, and takes
\* nothing and returns false otherwise.
TryConsumeAtMostOne ==
    [][\E token \in TokenAlphabet :
          IF lexer # <<>> /\ Head(lexer) = token
          THEN lexer' = Tail(lexer) /\ ret' = "true"
          ELSE lexer' = lexer /\ ret' = "false"]_vars

====
